---- MODULE Spec2Model ----
(***************************************************************************)
(* Model of src/app.js: the retry executor (fetchWithRetry), the Langflow  *)
(* client (triggerLangflow), the review handler (handleReviewRequest) and  *)
(* the merge-readiness handler (handleMergeCheck).                         *)
(* Strings are TLA+ strings; substring tests are computed character by     *)
(* character as String.prototype.includes computes them.                   *)
(*                                                                         *)
(* Spec        one invocation of handleReviewRequest                       *)
(* MergeSpec   one invocation of handleMergeCheck                          *)
(* ExtractSpec triggerLangflow's handling of a parsed body (lines 934-997) *)
(* ConcSpec    two invocations of handleReviewRequest, interleaved at      *)
(*             their awaits                                                *)
(* WebhookSpec one delivery of check_run.requested_action, for either      *)
(*             handler                                                     *)
(* FairWebhookSpec  WebhookSpec with every pending step eventually taken   *)
(* CatchSpec   triggerLangflow's catch block (lines 999-1027) on a thrown  *)
(*             error                                                       *)
(* PayloadSpec handleReviewRequest's construction of prData (lines         *)
(*             489-526)                                                    *)
(* RetriesSpec one invocation of handleReviewRequest with                  *)
(*             CONFIG.langflow.retries parsed from LANGFLOW_RETRIES        *)
(* LifeSpec    a sequence of webhook deliveries from POST /webhooks to the *)
(*             response, with the check run they create and update         *)
(***************************************************************************)
EXTENDS Integers, Sequences, FiniteSets, TLC

VARIABLES
    checkRun,   \* GitHub: what the last accepted write to the check run holds
    res,        \* app.post('/webhooks'): the status sent, 0 before it is sent
    deliveries, \* observed: webhook deliveries received so far
    pr,         \* handleReviewRequest: `pr.data`, the answer of pulls.get
    files,      \* handleReviewRequest: `files.data`, the answer of pulls.listFiles
    prData,     \* handleReviewRequest: `const prData`, the workflow's input
                \* (these three are followed in PayloadSpec; no call the handlers
                \* make depends on them, and the other specifications leave them
                \* undefined)
    running,    \* the invocation whose locals the variables below hold
    parked,     \* the locals of the other invocations, each suspended at an await
    parsed,     \* triggerLangflow: `let result`, the parsed response body
    env,        \* process.env: which Langflow settings are set, and the flow id
    retries,    \* CONFIG.langflow.retries, when it is a number
    retriesIsNaN, \* CONFIG.langflow.retries is NaN (`retries` is then not read)
    payload,    \* the webhook payload: does check_run.pull_requests hold a PR
    pc,         \* position of the invocation (the await it is suspended at)
    octokit,    \* handleReviewRequest: `let octokit` has been assigned
    attempt,    \* fetchWithRetry: loop variable
    fwr,        \* fetchWithRetry: how the call ended
    tl,         \* triggerLangflow: the value its promise settled with
    error,      \* handleReviewRequest: message of the error caught at line 607
    netLog,     \* observed: jitter sleep, fetch calls (by class), retry delays
    uniform,    \* observed: the outcome all fetch calls so far had, or "mixed"
    ghLog       \* observed: calls made to GitHub, in order

vars == <<checkRun, res, deliveries, pr, files, prData, running, parked, parsed, env, retries, retriesIsNaN, payload, pc, octokit, attempt, fwr, tl, error, netLog, uniform, ghLog>>

\* ------------------------------------------------------------------ bounds
MaxRetries == 3

\* CONFIG.langflow.retries where two invocations run together
ConcRetries == 2

\* ----------------------------------------------------------------- strings
Min(a, b) == IF a < b THEN a ELSE b

\* String.prototype.includes (the receiver is evaluated once, then searched)
Includes(s, p) ==
    \E receiver \in {s} :
        \E i \in 1..(Len(receiver) - Len(p) + 1) :
            SubSeq(receiver, i, i + Len(p) - 1) = p

\* String.prototype.substring(0, n)
Substring(s, n) == SubSeq(s, 1, Min(n, Len(s)))

\* ------------------------------------------------------- fetch outcomes
Statuses == {200, 201, 400, 401, 403, 404, 418, 429, 500, 502, 503, 504}

StatusText(s) ==
    CASE s = 200 -> "OK"
      [] s = 201 -> "Created"
      [] s = 400 -> "Bad Request"
      [] s = 401 -> "Unauthorized"
      [] s = 403 -> "Forbidden"
      [] s = 404 -> "Not Found"
      [] s = 418 -> "I'm a Teapot"
      [] s = 429 -> "Too Many Requests"
      [] s = 500 -> "Internal Server Error"
      [] s = 502 -> "Bad Gateway"
      [] s = 503 -> "Service Unavailable"
      [] s = 504 -> "Gateway Timeout"

\* response.ok
IsOk(s) == s >= 200 /\ s <= 299

\* Errors fetch() rejects with: the abort fired by the per-attempt timer, a
\* connection reset, a socket hang-up, a DNS failure, another failure.
AbortError == [name |-> "AbortError", code |-> "aborted",
               message |-> "The user aborted a request."]
ResetError == [name |-> "FetchError", code |-> "ECONNRESET",
               message |-> "request to https://langflow.example/run failed, reason: read ECONNRESET"]
HangUpError == [name |-> "FetchError", code |-> "HANGUP",
                message |-> "request to https://langflow.example/run failed, reason: socket hang up"]
DnsError == [name |-> "FetchError", code |-> "ENOTFOUND",
             message |-> "request to https://langflow.example/run failed, reason: getaddrinfo ENOTFOUND langflow.example"]
TlsError == [name |-> "FetchError", code |-> "CERT_HAS_EXPIRED",
             message |-> "request to https://langflow.example/run failed, reason: certificate has expired"]

FetchErrors == {AbortError, ResetError, HangUpError, DnsError, TlsError}

\* One attempt's outcome: a response with a status, or a thrown error.
Outcomes == [kind : {"response"}, status : Statuses]
            \cup [kind : {"throw"}, error : FetchErrors]

\* The class of an outcome, as netLog records it.
ClassOf(o) ==
    IF o.kind = "throw" THEN "throw"
    ELSE IF IsOk(o.status) THEN "2xx"
    ELSE IF o.status >= 500 THEN "5xx"
    ELSE "4xx"

\* An outcome by name: the status, or the failure's code.
Label(o) == IF o.kind = "throw" THEN o.error.code ELSE ToString(o.status)

\* What `uniform` holds after one more attempt with outcome o.
Observe(u, o) == IF u \in {"none", Label(o)} THEN Label(o) ELSE "mixed"

\* --------------------------------------------------------- fetchWithRetry
\* Mutant: every non-ok response is retried while attempts remain.
AfterAttemptRetriesClientErrors(o, a, r) ==
    IF o.kind = "response"
    THEN IF IsOk(o.status) THEN "return"
         ELSE IF a < r THEN "retry"
         ELSE "return"
    ELSE IF a = r THEN "throw" ELSE "retry"

\* Mutant: a thrown attempt is propagated at once, whatever the attempt.
AfterAttemptThrowsAtOnce(o, a, r) ==
    IF o.kind = "response"
    THEN IF IsOk(o.status) THEN "return"
         ELSE IF o.status >= 500 /\ a < r THEN "retry"
         ELSE "return"
    ELSE "throw"

\* Mutant: a failed attempt is retried without looking at the attempts left.
AfterAttemptIgnoresBudget(o, a, r) ==
    IF o.kind = "response"
    THEN IF IsOk(o.status) THEN "return"
         ELSE IF o.status >= 500 THEN "retry"
         ELSE "return"
    ELSE "retry"

\* Mutant: a 5xx response is retried on the last attempt too (`<=` for `<`).
AfterAttemptDelaysAfterLast(o, a, r) ==
    IF o.kind = "response"
    THEN IF IsOk(o.status) THEN "return"
         ELSE IF o.status >= 500 /\ a <= r THEN "retry"
         ELSE "return"
    ELSE IF a = r THEN "throw" ELSE "retry"

\* What the loop body does with the outcome of attempt `a` of `r`:
\* "return" the response, "throw" the error, or sleep and "retry".
AfterAttempt(o, a, r) ==
    IF o.kind = "response"
    THEN IF IsOk(o.status) THEN "return"
         ELSE IF o.status >= 500 /\ a < r THEN "retry"
         ELSE "return"
    ELSE IF a = r THEN "throw" ELSE "retry"

Pending == [kind |-> "pending"]

\* Mutant: the loop has no test (for (;;)).
LoopTestAlwaysPasses == TRUE

\* The loop test `attempt <= retries` (line 157): a comparison with NaN is false.
LoopTest == ~retriesIsNaN /\ attempt <= retries

\* Mutant: the loop body runs once before the test (a do-while loop).
FetchFallThroughAttemptsOnce ==
    /\ pc = "fetch"
    /\ ~LoopTest
    /\ netLog' = Append(netLog, "2xx")
    /\ uniform' = Observe(uniform, [kind |-> "response", status |-> 200])
    /\ fwr' = [kind |-> "response", status |-> 200]
    /\ pc' = "tl_response"
    /\ UNCHANGED <<checkRun, res, deliveries, pr, files, prData, running, parked, parsed, env, retries, retriesIsNaN, payload, octokit, attempt, tl, error, ghLog>>

\* The loop test `attempt <= retries` fails: the function falls off its end.
FetchFallThrough ==
    /\ pc = "fetch"
    /\ ~LoopTest
    /\ fwr' = [kind |-> "undefined"]
    /\ pc' = "tl_response"
    /\ UNCHANGED <<checkRun, res, deliveries, pr, files, prData, running, parked, parsed, env, retries, retriesIsNaN, payload, octokit, attempt, tl, error, netLog, ghLog, uniform>>

\* One pass of the loop body up to its next suspension: the awaited fetch
\* settles, then the function returns, throws, or starts the retry sleep.
FetchAttempt ==
    /\ pc = "fetch"
    /\ LoopTest
    /\ \E o \in Outcomes :
          /\ netLog' = Append(netLog, ClassOf(o))
          /\ uniform' = Observe(uniform, o)
          /\ LET next == AfterAttempt(o, attempt, retries) IN
             CASE next = "return" ->
                     /\ fwr' = o
                     /\ pc' = "tl_response"
               [] next = "throw" ->
                     /\ fwr' = o
                     /\ pc' = "tl_response"
               [] next = "retry" ->
                     /\ fwr' = fwr
                     /\ pc' = "retryDelay"
    /\ UNCHANGED <<checkRun, res, deliveries, pr, files, prData, running, parked, parsed, env, retries, retriesIsNaN, payload, octokit, attempt, tl, error, ghLog>>

\* Mutant: the retry goes on without the sleep.
RetryDelaySkipsSleep ==
    /\ pc = "retryDelay"
    /\ attempt' = attempt + 1
    /\ pc' = "fetch"
    /\ UNCHANGED <<checkRun, res, deliveries, pr, files, prData, running, parked, parsed, env, retries, retriesIsNaN, payload, octokit, fwr, tl, error, netLog, uniform, ghLog>>

\* Mutant: the retry does not use up an attempt.
RetryDelayKeepsAttempt ==
    /\ pc = "retryDelay"
    /\ netLog' = Append(netLog, "delay")
    /\ pc' = "fetch"
    /\ UNCHANGED <<checkRun, res, deliveries, pr, files, prData, running, parked, parsed, env, retries, retriesIsNaN, payload, octokit, attempt, fwr, tl, error, uniform, ghLog>>

\* await sleep(CONFIG.langflow.retryDelay), then the loop increment.
RetryDelay ==
    /\ pc = "retryDelay"
    /\ netLog' = Append(netLog, "delay")
    /\ attempt' = attempt + 1
    /\ pc' = "fetch"
    /\ UNCHANGED <<checkRun, res, deliveries, pr, files, prData, running, parked, parsed, env, retries, retriesIsNaN, payload, octokit, fwr, tl, error, ghLog, uniform>>

\* ------------------------------------------------------------ JSON values
\* A JavaScript value as response.json() can produce it, tagged by its type.
JUndef == [t |-> "undefined"]
JNull == [t |-> "null"]
JStr(s) == [t |-> "str", v |-> s]
JNum(n) == [t |-> "num", v |-> n]
JArr(a) == [t |-> "arr", v |-> a]
JObj(f) == [t |-> "obj", v |-> f]

\* ToBoolean
Truthy(x) ==
    CASE x.t = "undefined" -> FALSE
      [] x.t = "null" -> FALSE
      [] x.t = "str" -> x.v # ""
      [] x.t = "num" -> x.v # 0
      [] OTHER -> TRUE

\* Reading a property of null or undefined throws a TypeError.
Throws(x) == x.t \in {"undefined", "null"}

\* x.k for a value x that is not null or undefined
Get(x, k) ==
    CASE x.t = "obj" -> IF k \in DOMAIN x.v THEN x.v[k] ELSE JUndef
      [] x.t = "arr" -> IF k = "length" THEN JNum(Len(x.v)) ELSE JUndef
      [] x.t = "str" -> IF k = "length" THEN JNum(Len(x.v)) ELSE JUndef
      [] OTHER -> JUndef

\* x[0]
First(x) ==
    CASE x.t = "arr" -> IF Len(x.v) > 0 THEN x.v[1] ELSE JUndef
      [] x.t = "str" -> IF Len(x.v) > 0 THEN JStr(SubSeq(x.v, 1, 1)) ELSE JUndef
      [] OTHER -> JUndef

\* x && x.length > 0
NonEmpty(x) ==
    /\ Truthy(x)
    /\ LET n == Get(x, "length") IN n.t = "num" /\ n.v > 0

DefaultMessage == "Analysis completed successfully"

IsDefault(m) == m.t = "str" /\ m.v = DefaultMessage

\* a || b
OrElse(a, b) == IF Truthy(a) THEN a ELSE b

\* The nested outputs shape. [threw, m]: whether a TypeError was thrown inside
\* the extraction's try block, and the message assigned so far.
FromOutputs(result) ==
    IF Throws(result) THEN [threw |-> TRUE, m |-> JStr(DefaultMessage)]
    ELSE IF ~NonEmpty(Get(result, "outputs"))
    THEN [threw |-> FALSE, m |-> JStr(DefaultMessage)]
    ELSE LET output == First(Get(result, "outputs")) IN
         IF Throws(output) THEN [threw |-> TRUE, m |-> JStr(DefaultMessage)]
         ELSE IF ~NonEmpty(Get(output, "outputs"))
         THEN [threw |-> FALSE, m |-> JStr(DefaultMessage)]
         ELSE LET innerOutput == First(Get(output, "outputs")) IN
              IF Throws(innerOutput) THEN [threw |-> TRUE, m |-> JStr(DefaultMessage)]
              ELSE LET results == Get(innerOutput, "results") IN
                   IF /\ Truthy(results)
                      /\ Truthy(Get(results, "message"))
                      /\ Truthy(Get(Get(results, "message"), "data"))
                   THEN [threw |-> FALSE,
                         m |-> OrElse(Get(Get(Get(results, "message"), "data"), "text"),
                                      JStr("Analysis completed"))]
                   ELSE [threw |-> FALSE, m |-> JStr(DefaultMessage)]

\* Mutant: a `result` that is a string is not taken as the message.
FromResultIgnoresString(result, m) ==
    LET r == Get(result, "result") IN
    IF IsDefault(m) /\ Truthy(r)
    THEN IF Truthy(Get(r, "text")) THEN Get(r, "text")
         ELSE IF Truthy(Get(r, "message")) THEN Get(r, "message")
         ELSE m
    ELSE m

\* The flat `result` shape, tried while the message is still the default.
FromResult(result, m) ==
    LET r == Get(result, "result") IN
    IF IsDefault(m) /\ Truthy(r)
    THEN IF r.t = "str" THEN r
         ELSE IF Truthy(Get(r, "text")) THEN Get(r, "text")
         ELSE IF Truthy(Get(r, "message")) THEN Get(r, "message")
         ELSE m
    ELSE m

\* The flat `data.text` shape, tried while the message is still the default.
FromData(result, m) ==
    LET d == Get(result, "data") IN
    IF IsDefault(m) /\ Truthy(d) /\ Truthy(Get(d, "text"))
    THEN Get(d, "text")
    ELSE m

\* The whole extraction: a throw in the first block skips the other two.
ExtractMessage(result) ==
    LET o == FromOutputs(result) IN
    IF o.threw THEN o.m
    ELSE FromData(result, FromResult(result, o.m))

MaxMessageLength == 65000

TruncationMarker == "\n\n*[Message truncated due to length]*"

\* The fixed summary of lines 971-982 (its emoji are left out).
GenericSummary ==
    "## AI Analysis Results\n\n**PR Review Completed**\n\n"
    \o "The AI analysis has been processed successfully. The review covers:\n\n"
    \o "**Code Quality Assessment**\n**Security Review** \n"
    \o "**Best Practices Check**\n**Performance Analysis**\n\n"
    \o "*Detailed analysis results have been processed by the AI system.*"

\* message.includes(p): defined for strings and arrays only
HasIncludes(m) == m.t \in {"str", "arr"}

MsgIncludes(m, p) ==
    IF m.t = "str" THEN Includes(m.v, p)
    ELSE \E i \in 1..Len(m.v) : m.v[i].t = "str" /\ m.v[i].v = p

\* Mutant: one of the two substrings is enough.
NotFoundClampEitherSubstring(m) ==
    IF MsgIncludes(m, "PR #") \/ MsgIncludes(m, "not found")
    THEN JStr(GenericSummary)
    ELSE m

\* The not-found clamp, for a message that has an includes method.
NotFoundClamp(m) ==
    IF MsgIncludes(m, "PR #") /\ MsgIncludes(m, "not found")
    THEN JStr(GenericSummary)
    ELSE m

\* Mutant: a message of exactly MaxMessageLength characters is cut too.
LengthClampIncludesLimit(m) ==
    IF m.t = "str" /\ Len(m.v) >= MaxMessageLength
    THEN JStr(Substring(m.v, MaxMessageLength) \o TruncationMarker)
    ELSE m

\* The length clamp. An array has a length too, but no modelled body holds
\* one long enough to reach message.substring with it.
LengthClamp(m) ==
    IF m.t = "str" /\ Len(m.v) > MaxMessageLength
    THEN JStr(Substring(m.v, MaxMessageLength) \o TruncationMarker)
    ELSE m

\* ------------------------------------------------------- triggerLangflow
Err(msg) == [name |-> "Error", code |-> "", message |-> msg]

TypeErr(msg) == [name |-> "TypeError", code |-> "", message |-> msg]

FlowIds == {"", "review-flow"}

\* Mutant: the flow id is not checked.
ConfigErrorSkipsFlowId(e) ==
    IF ~e.endpoint THEN "LANGFLOW_ENDPOINT environment variable is not set"
    ELSE IF ~e.apiKey THEN "LANGFLOW_API_KEY environment variable is not set"
    ELSE ""

\* The three presence checks, in order: the message of the error thrown, or
\* "" when all three pass.
ConfigError(e) ==
    IF ~e.endpoint THEN "LANGFLOW_ENDPOINT environment variable is not set"
    ELSE IF ~e.apiKey THEN "LANGFLOW_API_KEY environment variable is not set"
    ELSE IF e.flowId = "" THEN "Flow ID is required but not provided"
    ELSE ""

\* The message chosen by the switch on response.status.
StatusMessage(status, flowId) ==
    CASE status = 400 -> "Bad request to Langflow API. Please check the data format."
      [] status = 401 -> "Unauthorized. Please check your Langflow API key."
      [] status = 403 -> "Forbidden. Your API key may not have access to this flow."
      [] status = 404 -> "Flow not found. Please check if flow ID '" \o flowId \o "' exists."
      [] status = 429 -> "Too many requests. Langflow API rate limit exceeded."
      [] status = 500 -> "Internal server error in Langflow. Please try again later."
      [] status = 502 -> "Bad gateway. Langflow service may be temporarily unavailable."
      [] status = 503 -> "Service unavailable. Langflow is temporarily down."
      [] status = 504 -> "Gateway timeout. Langflow is taking too long to respond."
      [] OTHER -> "Langflow API error: " \o ToString(status) \o " " \o StatusText(status)

DetailsMax == 200

\* The message of the error thrown for a non-ok response.
ErrorMessage(status, flowId, errorText) ==
    IF errorText # ""
    THEN StatusMessage(status, flowId) \o " Details: " \o Substring(errorText, DetailsMax)
    ELSE StatusMessage(status, flowId)

\* Mutant: the not-found rule is tried before the others.
CategorizeNotFoundFirst(err) ==
    IF Includes(err.message, "404")
    THEN "The specified AI flow was not found. Please check the flow configuration."
    ELSE IF err.name = "AbortError" \/ Includes(err.message, "timeout")
    THEN "The AI analysis timed out. This usually happens when the service is overloaded. Please try again in a few minutes."
    ELSE IF Includes(err.message, "ENOTFOUND") \/ Includes(err.message, "ECONNREFUSED")
    THEN "Cannot connect to the AI service. Please check if the Langflow endpoint is correct and accessible."
    ELSE IF Includes(err.message, "ECONNRESET") \/ Includes(err.message, "socket hang up")
    THEN "Connection to the AI service was interrupted. Please try again."
    ELSE IF Includes(err.message, "401")
    THEN "Authentication failed. Please check the API key configuration."
    ELSE err.message

\* The catch block's categories, first match wins.
Categorize(err) ==
    IF err.name = "AbortError" \/ Includes(err.message, "timeout")
    THEN "The AI analysis timed out. This usually happens when the service is overloaded. Please try again in a few minutes."
    ELSE IF Includes(err.message, "ENOTFOUND") \/ Includes(err.message, "ECONNREFUSED")
    THEN "Cannot connect to the AI service. Please check if the Langflow endpoint is correct and accessible."
    ELSE IF Includes(err.message, "ECONNRESET") \/ Includes(err.message, "socket hang up")
    THEN "Connection to the AI service was interrupted. Please try again."
    ELSE IF Includes(err.message, "401")
    THEN "Authentication failed. Please check the API key configuration."
    ELSE IF Includes(err.message, "404")
    THEN "The specified AI flow was not found. Please check the flow configuration."
    ELSE err.message

Success(m, d) == [kind |-> "resolved", success |-> TRUE, message |-> m, data |-> d]

Failure(userMessage, original) ==
    [kind |-> "resolved", success |-> FALSE, error |-> userMessage, originalError |-> original]

\* Mutant: the catch block handles the errors it knows and rethrows a TypeError.
CaughtRethrowsTypeError(err) ==
    IF err.name = "TypeError"
    THEN [kind |-> "rejected", error |-> err]
    ELSE Failure(Categorize(err), err.message)

\* What triggerLangflow settles with when `err` is thrown anywhere in its try.
Caught(err) == Failure(Categorize(err), err.message)

\* Lines 934-997 for a parsed body: the value returned, or the error thrown.
Processed(result) ==
    LET m == ExtractMessage(result) IN
    IF ~HasIncludes(m)
    THEN [threw |-> TRUE, err |-> TypeErr("message.includes is not a function")]
    ELSE [threw |-> FALSE, value |-> Success(LengthClamp(NotFoundClamp(m)), result)]

Ten == "0123456789"

Fifty == Ten \o Ten \o Ten \o Ten \o Ten

LongBody == Fifty \o Fifty \o Fifty \o Fifty \o "tail-is-cut"

\* Bodies of a non-ok response.
ErrorBodies ==
    {"", "Workflow crashed", "upstream request timeout", LongBody,
     "upstream returned 504", "Service under high load",
     "Service under high load: connect ETIMEDOUT 10.0.0.7:7860"}

Field(k, v) == JObj(k :> v)

NestedOutputs(text) ==
    Field("outputs", JArr(<<Field("outputs", JArr(<<Field("results",
        Field("message", Field("data", Field("text", text))))>>))>>))

\* Bodies of an ok response that parse as JSON.
JsonValues ==
    << Field("result", JStr("All good")),
       NestedOutputs(JStr("Looks good")),
       JObj("outputs" :> NestedOutputs(JStr("Looks good")).v["outputs"]
            @@ "result" :> JStr("All good")),
       Field("data", Field("text", JStr("From data"))),
       Field("result", Field("text", JStr("From result.text"))),
       Field("result", Field("message", JStr("From result.message"))),
       Field("result", JStr("Error: PR #12 not found in repository")),
       Field("result", Field("text", JNum(5))),
       Field("outputs", JArr(<<JNull>>)),
       JObj(<<>>),
       JNull,
       JArr(<<>>),
       JStr("plain"),
       JNum(7),
       Field("result", JStr("This PR is READY to merge")),
       Field("result", JStr("Not ready to merge: tests are failing")),
       Field("result", Field("text", JArr(<<JStr("ready")>>))) >>

\* Validation (lines 813-824), run when handleReviewRequest calls
\* triggerLangflow: a failed check is thrown and caught at once.
TriggerValidate ==
    /\ pc = "trigger"
    /\ LET e == ConfigError(env) IN
       IF e # ""
       THEN /\ tl' = Caught(Err(e))
            /\ pc' = "afterTrigger"
       ELSE /\ tl' = tl
            /\ pc' = "jitter"
    /\ UNCHANGED <<checkRun, res, deliveries, pr, files, prData, running, parked, parsed, env, retries, retriesIsNaN, payload, octokit, attempt, fwr, error, netLog, ghLog, uniform>>

\* await sleep(Math.random() * 3000 + 2000), then the call of fetchWithRetry
\* up to its first fetch (attempt = 1).
Jitter ==
    /\ pc = "jitter"
    /\ netLog' = Append(netLog, "jitter")
    /\ attempt' = 1
    /\ pc' = "fetch"
    /\ UNCHANGED <<checkRun, res, deliveries, pr, files, prData, running, parked, parsed, env, retries, retriesIsNaN, payload, octokit, fwr, tl, error, ghLog, uniform>>

\* fetchWithRetry has settled (lines 869-874): a thrown error is caught,
\* `response.status` of undefined throws a TypeError, a response is read.
TlResponse ==
    /\ pc = "tl_response"
    /\ CASE fwr.kind = "throw" ->
               /\ tl' = Caught(fwr.error)
               /\ pc' = "afterTrigger"
         [] fwr.kind = "undefined" ->
               /\ tl' = Caught(TypeErr("Cannot read properties of undefined (reading 'status')"))
               /\ pc' = "afterTrigger"
         [] fwr.kind = "response" ->
               /\ tl' = tl
               /\ pc' = IF IsOk(fwr.status) THEN "tl_json" ELSE "tl_errorText"
    /\ UNCHANGED <<checkRun, res, deliveries, pr, files, prData, running, parked, parsed, env, retries, retriesIsNaN, payload, octokit, attempt, fwr, error, netLog, ghLog, uniform>>

\* await response.text() of a non-ok response (a failed read leaves ''), then
\* the status table and the throw (lines 874-921).
ReadErrorText ==
    /\ pc = "tl_errorText"
    /\ \E readOk \in BOOLEAN, body \in ErrorBodies :
          LET errorText == IF readOk THEN body ELSE "" IN
          tl' = Caught(Err(ErrorMessage(fwr.status, env.flowId, errorText)))
    /\ pc' = "afterTrigger"
    /\ UNCHANGED <<checkRun, res, deliveries, pr, files, prData, running, parked, parsed, env, retries, retriesIsNaN, payload, octokit, attempt, fwr, error, netLog, ghLog, uniform>>

\* await response.json() succeeds: extraction, clamps and return.
ReadJson ==
    /\ pc = "tl_json"
    /\ \E i \in 1..Len(JsonValues) :
          /\ parsed' = JsonValues[i]
          /\ LET p == Processed(JsonValues[i]) IN
             tl' = IF p.threw THEN Caught(p.err) ELSE p.value
    /\ pc' = "afterTrigger"
    /\ UNCHANGED <<checkRun, res, deliveries, pr, files, prData, running, parked, env, retries, retriesIsNaN, payload, octokit, attempt, fwr, error, netLog, ghLog, uniform>>

\* await response.json() rejects: the body is not JSON (lines 927-928).
ReadJsonFails ==
    /\ pc = "tl_json"
    /\ pc' = "tl_rawText"
    /\ UNCHANGED <<checkRun, res, deliveries, pr, files, prData, running, parked, parsed, env, retries, retriesIsNaN, payload, octokit, attempt, fwr, tl, error, netLog, ghLog, uniform>>

\* await response.text() inside the JSON catch (lines 929-931): it resolves and
\* 'Invalid JSON response' is thrown, or it rejects (the body was consumed by
\* json()) and that TypeError is thrown instead.
ReadRawText ==
    /\ pc = "tl_rawText"
    /\ \E readOk \in BOOLEAN :
          tl' = IF readOk
                THEN Caught(Err("Invalid JSON response from Langflow API"))
                ELSE Caught(TypeErr("body used already for: https://langflow.example/run"))
    /\ pc' = "afterTrigger"
    /\ UNCHANGED <<checkRun, res, deliveries, pr, files, prData, running, parked, parsed, env, retries, retriesIsNaN, payload, octokit, attempt, fwr, error, netLog, ghLog, uniform>>

\* ------------------------------------- triggerLangflow on a parsed body
\* A filler text of one hundred letters.
Hundred ==
    "abcdefghij" \o "abcdefghij" \o "abcdefghij" \o "abcdefghij" \o "abcdefghij"
    \o "abcdefghij" \o "abcdefghij" \o "abcdefghij" \o "abcdefghij" \o "abcdefghij"

Thousand ==
    Hundred \o Hundred \o Hundred \o Hundred \o Hundred
    \o Hundred \o Hundred \o Hundred \o Hundred \o Hundred

TenThousand ==
    Thousand \o Thousand \o Thousand \o Thousand \o Thousand
    \o Thousand \o Thousand \o Thousand \o Thousand \o Thousand

\* Texts of MaxMessageLength characters, one more, and 70000.
AtLimit ==
    TenThousand \o TenThousand \o TenThousand \o TenThousand \o TenThousand
    \o TenThousand \o Thousand \o Thousand \o Thousand \o Thousand \o Thousand

OverLimit == AtLimit \o "x"

SeventyThousand == AtLimit \o Thousand \o Thousand \o Thousand \o Thousand \o Thousand

\* Values of the field `outputs` (JUndef: the field is absent).
OutputsShapes ==
    { JUndef,
      Get(NestedOutputs(JStr("Looks good")), "outputs"),
      Get(NestedOutputs(JStr("")), "outputs"),
      Get(NestedOutputs(JNum(5)), "outputs"),
      JArr(<<Field("outputs", JArr(<<Field("results",
          Field("message", Field("data", JObj(<<>>))))>>))>>),
      JArr(<<Field("outputs", JArr(<<JNull>>))>>),
      JArr(<<JNull>>),
      JArr(<<>>),
      JNull,
      JStr("text") }

\* Values of the field `result`.
ResultShapes ==
    { JUndef,
      JStr("All good"),
      Field("text", JStr("From result.text")),
      Field("message", JStr("From result.message")),
      Field("text", JNum(5)),
      Field("text", JArr(<<JStr("PR #"), JStr("not found")>>)),
      JStr("Error: PR #12 not found in repository"),
      JStr("PR #7 looks fine"),
      JStr("File not found in diff"),
      JObj(<<>>),
      JNull,
      JNum(7) }

\* Values of the field `data`.
DataShapes ==
    { JUndef,
      Field("text", JStr("From data")),
      Field("text", JNum(5)),
      JNull,
      JStr("raw") }

\* The JSON object holding those of the three fields that are not absent.
Body(o, r, d) ==
    LET all == [k \in {"outputs", "result", "data"} |->
                   CASE k = "outputs" -> o
                     [] k = "result" -> r
                     [] k = "data" -> d]
        present == {k \in {"outputs", "result", "data"} : all[k].t # "undefined"}
    IN  JObj([k \in present |-> all[k]])

\* Bodies with a long message.
LongBodies ==
    { Field("result", JStr(AtLimit)),
      Field("result", JStr(OverLimit)),
      Field("result", JStr(SeventyThousand)),
      NestedOutputs(JStr(SeventyThousand)),
      Field("result", JStr("PR #12 " \o AtLimit \o " was not found")) }

\* Bodies that are not objects.
OtherBodies ==
    { JNull, JArr(<<>>), JArr(<<Field("result", JStr("All good"))>>),
      JStr("plain"), JNum(7) }

\* The parsed bodies triggerLangflow is applied to.
ExtractInputs ==
    {Body(o, r, d) : o \in OutputsShapes, r \in ResultShapes, d \in DataShapes}
    \cup LongBodies \cup OtherBodies

\* Lines 934-997 (and the catch at 999) applied to the body in `parsed`.
Extract ==
    /\ pc = "extract"
    /\ LET p == Processed(parsed) IN
       tl' = IF p.threw THEN Caught(p.err) ELSE p.value
    /\ pc' = "extracted"
    /\ UNCHANGED <<checkRun, res, deliveries, pr, files, prData, running, parked, parsed, env, retries, retriesIsNaN, payload, octokit, attempt, fwr, error, netLog, uniform, ghLog>>

\* ---------------------------------------------------- handleReviewRequest
\* Messages of the errors GitHub calls reject with.
GitHubErrors == {"Not Found", "network timeout at: https://api.github.com/"}

\* A call to GitHub as ghLog records it.
Call(op, ok) ==
    [op |-> op, ok |-> ok, status |-> "", conclusion |-> "", title |-> "",
     summary |-> "", text |-> JUndef, action |-> ""]

\* octokit.rest.checks.update as ghLog records it (titles without their emoji).
Update(status, conclusion, title, summary, text, action, ok) ==
    [op |-> "checks.update", ok |-> ok, status |-> status, conclusion |-> conclusion,
     title |-> title, summary |-> summary, text |-> text, action |-> action]

\* What a write to the check run leaves there: the fields the request holds
\* (an update without `actions` offers no button of its own).
Shown(u) ==
    [status |-> u.status, conclusion |-> u.conclusion, title |-> u.title,
     action |-> u.action]

\* The check run addReviewButton creates (lines 341-367): completed, neutral,
\* with the 'review_pr' button.
CreatedCheck ==
    [status |-> "completed", conclusion |-> "neutral",
     title |-> "AI Review Available", action |-> "review_pr"]

\* The check run a successful review leaves (lines 539-557), with the
\* 'check_merge' button.
ReviewedCheck ==
    [status |-> "completed", conclusion |-> "neutral",
     title |-> "AI Review Complete", action |-> "check_merge"]

\* GitHub stores the update just logged when it accepted it; a rejected
\* update leaves the check run as it was.
WriteCheckRun ==
    checkRun' = IF Len(ghLog') > Len(ghLog) /\ ghLog'[Len(ghLog')].ok
                THEN Shown(ghLog'[Len(ghLog')])
                ELSE checkRun

Timeout == 120000

\* CONFIG.langflow.retryDelay, in milliseconds
RetryDelayMs == 5000

\* await getOctokit() (lines 388-401)
GetOctokit ==
    /\ pc = "getOctokit"
    /\ \/ /\ octokit' = TRUE
          /\ error' = error
          /\ pc' = "inProgress"
       \/ /\ \E e \in GitHubErrors :
                error' = "Authentication failed: All authentication methods failed. Original: "
                         \o e \o ", Auth-app: " \o e
          /\ octokit' = octokit
          /\ pc' = "catch"
    /\ UNCHANGED <<checkRun, res, deliveries, pr, files, prData, running, parked, parsed, env, retries, retriesIsNaN, payload, attempt, fwr, tl, netLog, ghLog, uniform>>

\* The update to 'in_progress' (lines 403-424); a failure is logged only.
\* Then the PR number is taken from the payload when it holds one.
UpdateInProgress ==
    /\ pc = "inProgress"
    /\ \E ok \in BOOLEAN :
          ghLog' = Append(ghLog,
              Update("in_progress", "", "AI Review in Progress",
                     "Analyzing your code with Langflow agents...",
                     JStr("This may take up to " \o ToString(Timeout \div 1000)
                          \o " seconds. Please wait..."),
                     "", ok))
    /\ pc' = IF payload.hasPR THEN "getPR" ELSE "listPulls"
    /\ WriteCheckRun
    /\ UNCHANGED <<res, deliveries, pr, files, prData, running, parked, parsed, env, retries, retriesIsNaN, payload, octokit, attempt, fwr, tl, error, netLog, uniform>>

\* await octokit.rest.pulls.list (lines 432-455)
ListPulls ==
    /\ pc = "listPulls"
    /\ \/ /\ ghLog' = Append(ghLog, Call("pulls.list", TRUE))
          /\ \/ /\ pc' = "getPR"
                /\ error' = error
             \/ /\ pc' = "catch"
                /\ error' = "Cannot find PR for this check run: "
                            \o "No open pull request found for this check run"
       \/ /\ ghLog' = Append(ghLog, Call("pulls.list", FALSE))
          /\ \E e \in GitHubErrors :
                error' = "Cannot find PR for this check run: " \o e
          /\ pc' = "catch"
    /\ UNCHANGED <<checkRun, res, deliveries, pr, files, prData, running, parked, parsed, env, retries, retriesIsNaN, payload, octokit, attempt, fwr, tl, netLog, uniform>>

\* await octokit.rest.pulls.get (lines 460-471, 483-487)
GetPR ==
    /\ pc = "getPR"
    /\ \/ /\ ghLog' = Append(ghLog, Call("pulls.get", TRUE))
          /\ error' = error
          /\ pc' = "listFiles"
       \/ /\ ghLog' = Append(ghLog, Call("pulls.get", FALSE))
          /\ \E e \in GitHubErrors : error' = "Failed to retrieve PR data: " \o e
          /\ pc' = "catch"
    /\ UNCHANGED <<checkRun, res, deliveries, pr, files, prData, running, parked, parsed, env, retries, retriesIsNaN, payload, octokit, attempt, fwr, tl, netLog, uniform>>

\* await octokit.rest.pulls.listFiles (lines 473-487), then prData is built
\* and triggerLangflow is called.
ListFiles ==
    /\ pc = "listFiles"
    /\ \/ /\ ghLog' = Append(ghLog, Call("pulls.listFiles", TRUE))
          /\ error' = error
          /\ pc' = "trigger"
       \/ /\ ghLog' = Append(ghLog, Call("pulls.listFiles", FALSE))
          /\ \E e \in GitHubErrors : error' = "Failed to retrieve PR data: " \o e
          /\ pc' = "catch"
    /\ UNCHANGED <<checkRun, res, deliveries, pr, files, prData, running, parked, parsed, env, retries, retriesIsNaN, payload, octokit, attempt, fwr, tl, netLog, uniform>>

\* The success update (lines 536-566); a failure is logged only.
CompleteUpdate ==
    /\ pc = "afterTrigger"
    /\ tl.kind = "resolved" /\ tl.success
    /\ \E ok \in BOOLEAN :
          ghLog' = Append(ghLog,
              Update("completed", "neutral", "AI Review Complete",
                     "Code review completed successfully",
                     OrElse(tl.message, JStr("Review analysis completed")),
                     "check_merge", ok))
    /\ pc' = "comment"
    /\ WriteCheckRun
    /\ UNCHANGED <<res, deliveries, pr, files, prData, running, parked, parsed, env, retries, retriesIsNaN, payload, octokit, attempt, fwr, tl, error, netLog, uniform>>

\* Mutant: a rejected comment is not caught on the spot and reaches the
\* handler's catch.
CommentFailureEscapes ==
    /\ pc = "comment"
    /\ \/ /\ ghLog' = Append(ghLog,
                 [Call("issues.createComment", TRUE) EXCEPT
                     !.text = OrElse(tl.message, JStr("Review completed successfully"))])
          /\ error' = error
          /\ pc' = "done"
       \/ /\ ghLog' = Append(ghLog,
                 [Call("issues.createComment", FALSE) EXCEPT
                     !.text = OrElse(tl.message, JStr("Review completed successfully"))])
          /\ \E e \in GitHubErrors : error' = e
          /\ pc' = "catch"
    /\ UNCHANGED <<checkRun, res, deliveries, pr, files, prData, running, parked, parsed, env, retries, retriesIsNaN, payload, octokit, attempt, fwr, tl, netLog, uniform>>

\* The PR comment (lines 568-590); text is the message put into its body.
Comment ==
    /\ pc = "comment"
    /\ \E ok \in BOOLEAN :
          ghLog' = Append(ghLog,
              [Call("issues.createComment", ok) EXCEPT
                  !.text = OrElse(tl.message, JStr("Review completed successfully"))])
    /\ pc' = "done"
    /\ UNCHANGED <<checkRun, res, deliveries, pr, files, prData, running, parked, parsed, env, retries, retriesIsNaN, payload, octokit, attempt, fwr, tl, error, netLog, uniform>>

\* The user-friendly remapping of a failure message (lines 593-602).
RemapError(msg) ==
    LET errorMessage == IF msg = "" THEN "Langflow request failed" ELSE msg IN
    IF Includes(errorMessage, "504") \/ Includes(errorMessage, "GATEWAY_TIMEOUT")
    THEN "The AI service is currently experiencing high load. Please try again in a few minutes."
    ELSE IF Includes(errorMessage, "timeout") \/ Includes(errorMessage, "ETIMEDOUT")
    THEN "The AI analysis is taking longer than expected. The service may be busy."
    ELSE IF Includes(errorMessage, "500") \/ Includes(errorMessage, "503")
    THEN "The AI service is temporarily unavailable. Please try again later."
    ELSE errorMessage

\* The failure branch (lines 591-605): remap the message and throw. (A
\* rejection of the awaited call at line 533 would be caught the same way.)
ReviewFailed ==
    /\ pc = "afterTrigger"
    /\ ~(tl.kind = "resolved" /\ tl.success)
    /\ error' = IF tl.kind = "rejected" THEN tl.error.message ELSE RemapError(tl.error)
    /\ pc' = "catch"
    /\ UNCHANGED <<checkRun, res, deliveries, pr, files, prData, running, parked, parsed, env, retries, retriesIsNaN, payload, octokit, attempt, fwr, tl, netLog, ghLog, uniform>>

\* Whether the caught message is of the timeout/connectivity kind (620-621).
IsTransient(msg) ==
    \/ Includes(msg, "timeout")
    \/ Includes(msg, "504")
    \/ Includes(msg, "temporarily unavailable")
    \/ Includes(msg, "high load")

\* The conclusion of the error update (lines 615-625).
ErrorConclusion(msg) == IF IsTransient(msg) THEN "neutral" ELSE "failure"

ErrorTitle(msg) == IF IsTransient(msg) THEN "AI Review Unavailable" ELSE "AI Review Failed"

ErrorSummary(msg) ==
    IF IsTransient(msg) THEN "The AI service is currently unavailable"
    ELSE "There was an error during the review process"

\* Mutant: a rejected error update is thrown out of the catch block.
CatchUpdateFailureEscapes ==
    /\ pc = "catch"
    /\ octokit
    /\ \E ok \in BOOLEAN :
          /\ ghLog' = Append(ghLog,
                Update("completed", ErrorConclusion(error), ErrorTitle(error),
                       ErrorSummary(error),
                       JStr(error \o "\n\n*You can try running the review again by clicking the \"Review PR\" button.*"),
                       "review_pr", ok))
          /\ pc' = IF ok THEN "done" ELSE "rejected"
    /\ WriteCheckRun
    /\ UNCHANGED <<res, deliveries, pr, files, prData, running, parked, parsed, env, retries, retriesIsNaN, payload, octokit, attempt, fwr, tl, error, netLog, uniform>>

\* Mutant: the catch block logs the error and makes no error update.
CatchUpdateLogsOnly ==
    /\ pc = "catch"
    /\ octokit
    /\ pc' = "done"
    /\ UNCHANGED <<checkRun, res, deliveries, pr, files, prData, running, parked, parsed, env, retries, retriesIsNaN, payload, octokit, attempt, fwr, tl, error, netLog, ghLog, uniform>>

\* Mutant: the error update offers the merge-readiness button.
CatchUpdateOffersMerge ==
    /\ pc = "catch"
    /\ octokit
    /\ \E ok \in BOOLEAN :
          ghLog' = Append(ghLog,
              Update("completed", ErrorConclusion(error), ErrorTitle(error),
                     ErrorSummary(error),
                     JStr(error \o "\n\n*You can try running the review again by clicking the \"Review PR\" button.*"),
                     "check_merge", ok))
    /\ pc' = "done"
    /\ WriteCheckRun
    /\ UNCHANGED <<res, deliveries, pr, files, prData, running, parked, parsed, env, retries, retriesIsNaN, payload, octokit, attempt, fwr, tl, error, netLog, uniform>>

\* The catch block (lines 607-657): one error update when octokit is set.
CatchUpdate ==
    /\ pc = "catch"
    /\ octokit
    /\ \E ok \in BOOLEAN :
          ghLog' = Append(ghLog,
              Update("completed", ErrorConclusion(error), ErrorTitle(error),
                     ErrorSummary(error),
                     JStr(error \o "\n\n*You can try running the review again by clicking the \"Review PR\" button.*"),
                     "review_pr", ok))
    /\ pc' = "done"
    /\ WriteCheckRun
    /\ UNCHANGED <<res, deliveries, pr, files, prData, running, parked, parsed, env, retries, retriesIsNaN, payload, octokit, attempt, fwr, tl, error, netLog, uniform>>

\* Mutant: without a client the catch block throws the error on.
CatchNoOctokitRethrows ==
    /\ pc = "catch"
    /\ ~octokit
    /\ pc' = "rejected"
    /\ UNCHANGED <<checkRun, res, deliveries, pr, files, prData, running, parked, parsed, env, retries, retriesIsNaN, payload, octokit, attempt, fwr, tl, error, netLog, ghLog, uniform>>

\* The catch block when octokit was never assigned: nothing but a log line.
CatchNoOctokit ==
    /\ pc = "catch"
    /\ ~octokit
    /\ pc' = "done"
    /\ UNCHANGED <<checkRun, res, deliveries, pr, files, prData, running, parked, parsed, env, retries, retriesIsNaN, payload, octokit, attempt, fwr, tl, error, netLog, ghLog, uniform>>

\* ------------------------------------------------------- handleMergeCheck
Upper == "ABCDEFGHIJKLMNOPQRSTUVWXYZ"

Lower == "abcdefghijklmnopqrstuvwxyz"

\* One character in lower case.
LowerChar(c) ==
    IF \E i \in 1..Len(Upper) : SubSeq(Upper, i, i) = c
    THEN LET i == CHOOSE j \in 1..Len(Upper) : SubSeq(Upper, j, j) = c
         IN  SubSeq(Lower, i, i)
    ELSE c

\* String.prototype.toLowerCase, one half of the string after the other (the
\* receiver is evaluated once)
RECURSIVE ToLowerCase(_)
ToLowerCase(s) ==
    CHOOSE lowered \in
        { IF Len(receiver) = 0 THEN ""
          ELSE IF Len(receiver) = 1 THEN LowerChar(receiver)
          ELSE LET half == Len(receiver) \div 2 IN
               ToLowerCase(SubSeq(receiver, 1, half))
                   \o ToLowerCase(SubSeq(receiver, half + 1, Len(receiver)))
          : receiver \in {s} } : TRUE

MergeFlowIds == {"", "merge-flow"}

\* const octokit = await getOctokit() (line 666), then the PR number is taken
\* from the payload when it holds one (lines 670-671).
MergeGetOctokit ==
    /\ pc = "mergeGetOctokit"
    /\ \/ /\ octokit' = TRUE
          /\ error' = error
          /\ pc' = IF payload.hasPR THEN "mergeInProgress" ELSE "mergeListPulls"
       \/ /\ \E e \in GitHubErrors :
                error' = "Authentication failed: All authentication methods failed. Original: "
                         \o e \o ", Auth-app: " \o e
          /\ octokit' = octokit
          /\ pc' = "mergeCatch"
    /\ UNCHANGED <<checkRun, res, deliveries, pr, files, prData, running, parked, parsed, env, retries, retriesIsNaN, payload, attempt, fwr, tl, netLog, ghLog, uniform>>

\* await octokit.rest.pulls.list (lines 675-688)
MergeListPulls ==
    /\ pc = "mergeListPulls"
    /\ \/ /\ ghLog' = Append(ghLog, Call("pulls.list", TRUE))
          /\ \/ /\ pc' = "mergeInProgress"
                /\ error' = error
             \/ /\ pc' = "mergeCatch"
                /\ error' = "No open pull request found for this check run"
       \/ /\ ghLog' = Append(ghLog, Call("pulls.list", FALSE))
          /\ \E e \in GitHubErrors : error' = e
          /\ pc' = "mergeCatch"
    /\ UNCHANGED <<checkRun, res, deliveries, pr, files, prData, running, parked, parsed, env, retries, retriesIsNaN, payload, octokit, attempt, fwr, tl, netLog, uniform>>

\* The update to 'in_progress' (lines 693-702); its rejection is not caught
\* on the spot and goes to the handler's catch.
MergeUpdateInProgress ==
    /\ pc = "mergeInProgress"
    /\ \/ /\ ghLog' = Append(ghLog,
                 Update("in_progress", "", "Checking Merge Readiness",
                        "Analyzing PR for merge readiness...", JUndef, "", TRUE))
          /\ error' = error
          /\ pc' = "mergeGetPR"
       \/ /\ ghLog' = Append(ghLog,
                 Update("in_progress", "", "Checking Merge Readiness",
                        "Analyzing PR for merge readiness...", JUndef, "", FALSE))
          /\ \E e \in GitHubErrors : error' = e
          /\ pc' = "mergeCatch"
    /\ WriteCheckRun
    /\ UNCHANGED <<res, deliveries, pr, files, prData, running, parked, parsed, env, retries, retriesIsNaN, payload, octokit, attempt, fwr, tl, netLog, uniform>>

\* await octokit.rest.pulls.get (lines 705-709)
MergeGetPR ==
    /\ pc = "mergeGetPR"
    /\ \/ /\ ghLog' = Append(ghLog, Call("pulls.get", TRUE))
          /\ error' = error
          /\ pc' = "mergeListComments"
       \/ /\ ghLog' = Append(ghLog, Call("pulls.get", FALSE))
          /\ \E e \in GitHubErrors : error' = e
          /\ pc' = "mergeCatch"
    /\ UNCHANGED <<checkRun, res, deliveries, pr, files, prData, running, parked, parsed, env, retries, retriesIsNaN, payload, octokit, attempt, fwr, tl, netLog, uniform>>

\* await octokit.rest.issues.listComments (lines 712-716), then mergeData is
\* built and triggerLangflow is called (lines 718-747).
MergeListComments ==
    /\ pc = "mergeListComments"
    /\ \/ /\ ghLog' = Append(ghLog, Call("issues.listComments", TRUE))
          /\ error' = error
          /\ pc' = "trigger"
       \/ /\ ghLog' = Append(ghLog, Call("issues.listComments", FALSE))
          /\ \E e \in GitHubErrors : error' = e
          /\ pc' = "mergeCatch"
    /\ UNCHANGED <<checkRun, res, deliveries, pr, files, prData, running, parked, parsed, env, retries, retriesIsNaN, payload, octokit, attempt, fwr, tl, netLog, uniform>>

\* The success branch up to its first await (lines 749-762): the readiness
\* test, then the completion update, whose rejection goes to the catch. A
\* message without a toLowerCase method throws a TypeError at line 750.
MergeComplete ==
    /\ pc = "afterTrigger"
    /\ tl.kind = "resolved" /\ tl.success
    /\ IF tl.message.t # "str"
       THEN /\ error' = "mergeResult.message.toLowerCase is not a function"
            /\ ghLog' = ghLog
            /\ pc' = "mergeCatch"
       ELSE LET isReady == Includes(ToLowerCase(tl.message.v), "ready")
                outcome == IF isReady THEN "success" ELSE "neutral"
                heading == IF isReady THEN "Ready to Merge!" ELSE "Not Ready to Merge"
                shown == IF tl.message.v # "" THEN tl.message.v
                           ELSE "Merge readiness analysis completed"
            IN  \/ /\ ghLog' = Append(ghLog,
                          Update("completed", outcome, heading, shown, JUndef, "", TRUE))
                   /\ error' = error
                   /\ pc' = "mergeComment"
                \/ /\ ghLog' = Append(ghLog,
                          Update("completed", outcome, heading, shown, JUndef, "", FALSE))
                   /\ \E e \in GitHubErrors : error' = e
                   /\ pc' = "mergeCatch"
    /\ WriteCheckRun
    /\ UNCHANGED <<res, deliveries, pr, files, prData, running, parked, parsed, env, retries, retriesIsNaN, payload, octokit, attempt, fwr, tl, netLog, uniform>>

\* The final comment (lines 765-777); its rejection goes to the catch.
MergeComment ==
    /\ pc = "mergeComment"
    /\ \/ /\ ghLog' = Append(ghLog,
                 [Call("issues.createComment", TRUE) EXCEPT !.text = tl.message])
          /\ error' = error
          /\ pc' = "done"
       \/ /\ ghLog' = Append(ghLog,
                 [Call("issues.createComment", FALSE) EXCEPT !.text = tl.message])
          /\ \E e \in GitHubErrors : error' = e
          /\ pc' = "mergeCatch"
    /\ UNCHANGED <<checkRun, res, deliveries, pr, files, prData, running, parked, parsed, env, retries, retriesIsNaN, payload, octokit, attempt, fwr, tl, netLog, uniform>>

\* The failure branch (lines 778-780): throw the client's message.
MergeFailed ==
    /\ pc = "afterTrigger"
    /\ ~(tl.kind = "resolved" /\ tl.success)
    /\ error' = IF tl.kind = "rejected" THEN tl.error.message
                ELSE IF tl.error = "" THEN "Merge check failed"
                ELSE tl.error
    /\ pc' = "mergeCatch"
    /\ UNCHANGED <<checkRun, res, deliveries, pr, files, prData, running, parked, parsed, env, retries, retriesIsNaN, payload, octokit, attempt, fwr, tl, netLog, ghLog, uniform>>

\* Mutant: the catch block sees the client and makes its error update.
MergeCatchMakesUpdate ==
    /\ pc = "mergeCatch"
    /\ IF octokit
       THEN \E ok \in BOOLEAN :
               ghLog' = Append(ghLog,
                   Update("completed", "neutral", "Merge Check Unavailable",
                          "Unable to complete merge readiness analysis",
                          JStr("Error: " \o error), "", ok))
       ELSE ghLog' = ghLog
    /\ pc' = "done"
    /\ WriteCheckRun
    /\ UNCHANGED <<res, deliveries, pr, files, prData, running, parked, parsed, env, retries, retriesIsNaN, payload, octokit, attempt, fwr, tl, error, netLog, uniform>>

\* The catch block (lines 782-804). `const octokit` of line 666 is scoped to
\* the try block and the module declares no other `octokit`, so the test at
\* line 786 throws a ReferenceError: the error update of lines 788-799 is
\* never reached and the promise handleMergeCheck returned is rejected.
MergeCatch ==
    /\ pc = "mergeCatch"
    /\ error' = "octokit is not defined"
    /\ pc' = "rejected"
    /\ UNCHANGED <<checkRun, res, deliveries, pr, files, prData, running, parked, parsed, env, retries, retriesIsNaN, payload, octokit, attempt, fwr, tl, netLog, ghLog, uniform>>

\* ------------------------------------------- invocations and the event loop
\* The locals of the running invocation: every `let`, `const` and parameter
\* of the handler and of the functions it has called.
Locals ==
    [payload |-> payload, pc |-> pc, octokit |-> octokit, attempt |-> attempt,
     fwr |-> fwr, tl |-> tl, error |-> error, netLog |-> netLog,
     uniform |-> uniform, ghLog |-> ghLog, parsed |-> parsed]

\* Mutant: the workflow result is one module-level variable, not a local.
SwitchSharesResult ==
    \E j \in DOMAIN parked :
        /\ parked[j].pc # "done"
        /\ running' = j
        /\ parked' = [i \in (DOMAIN parked \ {j}) \cup {running} |->
                         IF i = running THEN Locals ELSE parked[i]]
        /\ payload' = parked[j].payload
        /\ pc' = parked[j].pc
        /\ octokit' = parked[j].octokit
        /\ attempt' = parked[j].attempt
        /\ fwr' = parked[j].fwr
        /\ tl' = tl
        /\ error' = parked[j].error
        /\ netLog' = parked[j].netLog
        /\ uniform' = parked[j].uniform
        /\ ghLog' = parked[j].ghLog
        /\ parsed' = parked[j].parsed
        /\ UNCHANGED <<checkRun, res, deliveries, pr, files, prData, env, retries, retriesIsNaN>>

\* The running invocation is suspended at an await and the event loop resumes
\* another one that has not ended: the handlers are async functions started
\* per webhook delivery (lines 124-148), and nothing orders their steps.
Switch ==
    \E j \in DOMAIN parked :
        /\ parked[j].pc # "done"
        /\ running' = j
        /\ parked' = [i \in (DOMAIN parked \ {j}) \cup {running} |->
                         IF i = running THEN Locals ELSE parked[i]]
        /\ payload' = parked[j].payload
        /\ pc' = parked[j].pc
        /\ octokit' = parked[j].octokit
        /\ attempt' = parked[j].attempt
        /\ fwr' = parked[j].fwr
        /\ tl' = parked[j].tl
        /\ error' = parked[j].error
        /\ netLog' = parked[j].netLog
        /\ uniform' = parked[j].uniform
        /\ ghLog' = parked[j].ghLog
        /\ parsed' = parked[j].parsed
        /\ UNCHANGED <<checkRun, res, deliveries, pr, files, prData, env, retries, retriesIsNaN>>

\* ------------------------------------------------------ the specification
Init ==
    /\ env \in [endpoint : BOOLEAN, apiKey : BOOLEAN, flowId : FlowIds]
    /\ retries \in 0..MaxRetries
    /\ retriesIsNaN = FALSE
    /\ payload \in [hasPR : BOOLEAN]
    /\ pc = "getOctokit"
    /\ octokit = FALSE
    /\ attempt = 0
    /\ fwr = Pending
    /\ tl = Pending
    /\ error = ""
    /\ netLog = <<>>
    /\ uniform = "none"
    /\ ghLog = <<>>
    /\ parsed = JUndef
    /\ running = 1
    /\ checkRun = CreatedCheck
    /\ res = 0
    /\ deliveries = 0
    /\ pr = JUndef
    /\ files = JUndef
    /\ prData = JUndef
    /\ parked = <<>>

Next ==
    \/ GetOctokit
    \/ UpdateInProgress
    \/ ListPulls
    \/ GetPR
    \/ ListFiles
    \/ TriggerValidate
    \/ Jitter
    \/ FetchFallThrough
    \/ FetchAttempt
    \/ RetryDelay
    \/ TlResponse
    \/ ReadErrorText
    \/ ReadJson
    \/ ReadJsonFails
    \/ ReadRawText
    \/ CompleteUpdate
    \/ Comment
    \/ ReviewFailed
    \/ CatchUpdate
    \/ CatchNoOctokit

Spec == Init /\ [][Next]_vars

\* Two deliveries of the 'review_pr' action for one check run: two
\* invocations of handleReviewRequest with the same payload, the Langflow
\* settings present and ConcRetries attempts per workflow call.
ConcInit ==
    /\ env = [endpoint |-> TRUE, apiKey |-> TRUE, flowId |-> "review-flow"]
    /\ retries = ConcRetries
    /\ retriesIsNaN = FALSE
    /\ payload = [hasPR |-> TRUE]
    /\ pc = "getOctokit"
    /\ octokit = FALSE
    /\ attempt = 0
    /\ fwr = Pending
    /\ tl = Pending
    /\ error = ""
    /\ netLog = <<>>
    /\ uniform = "none"
    /\ ghLog = <<>>
    /\ parsed = JUndef
    /\ running = 1
    /\ checkRun = CreatedCheck
    /\ res = 0
    /\ deliveries = 0
    /\ pr = JUndef
    /\ files = JUndef
    /\ prData = JUndef
    /\ parked = [i \in {2} |-> Locals]

\* What the collaborators answer in ConcSpec: the workflow answers 200 or 503
\* or resets the connection, an error body is empty, a JSON body is one of
\* two, a body that is not JSON can be read as text, and GitHub rejects a
\* call with 'Not Found'.
ConcAnswers ==
    /\ fwr.kind = "response" => fwr.status \in {200, 503}
    /\ fwr.kind = "throw" => fwr.error = ResetError
    /\ parsed.t # "undefined" =>
          parsed \in {Field("result", JStr("All good")), NestedOutputs(JStr("Looks good"))}
    /\ (tl.kind = "resolved" /\ ~tl.success) =>
          tl.originalError \in {ResetError.message,
                                StatusMessage(503, env.flowId),
                                "Invalid JSON response from Langflow API"}
    /\ ~Includes(error, "network timeout")

\* The steps of handleReviewRequest that can be taken with a payload that
\* holds the PR and retries >= 1, and the event loop's switch.
ConcNext ==
    \/ GetOctokit /\ ConcAnswers'
    \/ UpdateInProgress /\ ConcAnswers'
    \/ GetPR /\ ConcAnswers'
    \/ ListFiles /\ ConcAnswers'
    \/ TriggerValidate /\ ConcAnswers'
    \/ Jitter /\ ConcAnswers'
    \/ FetchAttempt /\ ConcAnswers'
    \/ RetryDelay /\ ConcAnswers'
    \/ TlResponse /\ ConcAnswers'
    \/ ReadErrorText /\ ConcAnswers'
    \/ ReadJson /\ ConcAnswers'
    \/ ReadJsonFails /\ ConcAnswers'
    \/ ReadRawText /\ ConcAnswers'
    \/ CompleteUpdate /\ ConcAnswers'
    \/ Comment /\ ConcAnswers'
    \/ ReviewFailed /\ ConcAnswers'
    \/ CatchUpdate /\ ConcAnswers'
    \/ CatchNoOctokit /\ ConcAnswers'
    \/ Switch /\ ConcAnswers'

ConcSpec == ConcInit /\ [][ConcNext]_vars

\* One invocation of handleMergeCheck.
MergeInit ==
    /\ env \in [endpoint : BOOLEAN, apiKey : BOOLEAN, flowId : MergeFlowIds]
    /\ retries \in 0..MaxRetries
    /\ retriesIsNaN = FALSE
    /\ payload \in [hasPR : BOOLEAN]
    /\ pc = "mergeGetOctokit"
    /\ octokit = FALSE
    /\ attempt = 0
    /\ fwr = Pending
    /\ tl = Pending
    /\ error = ""
    /\ netLog = <<>>
    /\ uniform = "none"
    /\ ghLog = <<>>
    /\ parsed = JUndef
    /\ running = 1
    /\ checkRun = ReviewedCheck
    /\ res = 0
    /\ deliveries = 0
    /\ pr = JUndef
    /\ files = JUndef
    /\ prData = JUndef
    /\ parked = <<>>

MergeNext ==
    \/ MergeGetOctokit
    \/ MergeListPulls
    \/ MergeUpdateInProgress
    \/ MergeGetPR
    \/ MergeListComments
    \/ TriggerValidate
    \/ Jitter
    \/ FetchFallThrough
    \/ FetchAttempt
    \/ RetryDelay
    \/ TlResponse
    \/ ReadErrorText
    \/ ReadJson
    \/ ReadJsonFails
    \/ ReadRawText
    \/ MergeComplete
    \/ MergeComment
    \/ MergeFailed
    \/ MergeCatch

MergeSpec == MergeInit /\ [][MergeNext]_vars

\* The identifiers of the check-run buttons, and one the app does not know.
ActionIds == {"review_pr", "check_merge", "other"}

\* The 'check_run.requested_action' listener (lines 124-148): the handler is
\* chosen by payload.requested_action.identifier; any other identifier is
\* ignored.
Dispatch ==
    /\ pc = "dispatch"
    /\ pc' = CASE payload.action = "review_pr" -> "getOctokit"
               [] payload.action = "check_merge" -> "mergeGetOctokit"
               [] OTHER -> "done"
    /\ UNCHANGED <<checkRun, res, deliveries, pr, files, prData, running, parked, parsed, env, retries, retriesIsNaN, payload, octokit, attempt, fwr, tl, error, netLog, uniform, ghLog>>

\* One delivery of 'check_run.requested_action', for either button.
WebhookInit ==
    /\ env \in [endpoint : BOOLEAN, apiKey : BOOLEAN, flowId : {"", "flow"}]
    /\ retries \in 0..MaxRetries
    /\ retriesIsNaN = FALSE
    /\ payload \in [hasPR : BOOLEAN, action : ActionIds]
    /\ pc = "dispatch"
    /\ octokit = FALSE
    /\ attempt = 0
    /\ fwr = Pending
    /\ tl = Pending
    /\ error = ""
    /\ netLog = <<>>
    /\ uniform = "none"
    /\ ghLog = <<>>
    /\ parsed = JUndef
    /\ running = 1
    /\ checkRun = IF payload.action = "check_merge" THEN ReviewedCheck ELSE CreatedCheck
    /\ res = 0
    /\ deliveries = 0
    /\ pr = JUndef
    /\ files = JUndef
    /\ prData = JUndef
    /\ parked = <<>>

\* triggerLangflow returns to the handler that called it.
InReview == payload.action = "review_pr"

InMerge == payload.action = "check_merge"

WebhookNext ==
    \/ Dispatch
    \/ GetOctokit
    \/ UpdateInProgress
    \/ ListPulls
    \/ GetPR
    \/ ListFiles
    \/ MergeGetOctokit
    \/ MergeListPulls
    \/ MergeUpdateInProgress
    \/ MergeGetPR
    \/ MergeListComments
    \/ TriggerValidate
    \/ Jitter
    \/ FetchFallThrough
    \/ FetchAttempt
    \/ RetryDelay
    \/ TlResponse
    \/ ReadErrorText
    \/ ReadJson
    \/ ReadJsonFails
    \/ ReadRawText
    \/ InReview /\ CompleteUpdate
    \/ InReview /\ ReviewFailed
    \/ Comment
    \/ CatchUpdate
    \/ CatchNoOctokit
    \/ InMerge /\ MergeComplete
    \/ InMerge /\ MergeFailed
    \/ MergeComment
    \/ MergeCatch

WebhookSpec == WebhookInit /\ [][WebhookNext]_vars

\* WebhookSpec where no step that can be taken is put off for ever: a call to
\* GitHub or to the workflow endpoint returns or throws, a fetch answers or
\* is aborted, a sleep ends, and the event loop resumes the handler.
FairWebhookSpec == WebhookSpec /\ WF_vars(WebhookNext)

\* ------------------------------------------------ the life of a check run
\* Deliveries followed in LifeSpec.
MaxDeliveries == 3

\* CONFIG.langflow.retries in LifeSpec is 0 or this.
LifeRetries == 2

\* The events the app listens to (lines 113, 118, 124).
Events == {"pull_request.opened", "pull_request.synchronize", "check_run.requested_action"}

\* No check run has been created yet.
NoCheck == [status |-> "none", conclusion |-> "", title |-> "", action |-> ""]

\* POST /webhooks (lines 97-104) up to the listener's first statement:
\* webhooks.verifyAndReceive rejects a delivery whose signature does not match
\* and otherwise calls the listener registered for the event. Each delivery
\* starts a handler with fresh locals. A requested action belongs to a check
\* run, so one exists; the identifier is any of ActionIds.
Receive ==
    /\ pc = "idle"
    /\ deliveries < MaxDeliveries
    /\ \E e \in Events, valid \in BOOLEAN, hasPR \in BOOLEAN, id \in ActionIds \cup {""} :
          /\ IF e = "check_run.requested_action"
             THEN id # "" /\ checkRun.status # "none"
             ELSE id = "" /\ hasPR
          /\ payload' = [event |-> e, valid |-> valid, hasPR |-> hasPR, action |-> id]
          /\ pc' = IF ~valid THEN "rejected"
                   ELSE IF e = "check_run.requested_action" THEN "dispatch"
                   ELSE "addReviewButton"
    /\ deliveries' = deliveries + 1
    /\ res' = 0
    /\ octokit' = FALSE
    /\ attempt' = 0
    /\ fwr' = Pending
    /\ tl' = Pending
    /\ error' = ""
    /\ netLog' = <<>>
    /\ uniform' = "none"
    /\ ghLog' = <<>>
    /\ parsed' = JUndef
    /\ UNCHANGED <<checkRun, pr, files, prData, running, parked, env, retries, retriesIsNaN>>

\* addReviewButton: const octokit = await getOctokit() (line 339); a rejection
\* is caught at line 374 and logged.
AddGetOctokit ==
    /\ pc = "addReviewButton"
    /\ \/ /\ octokit' = TRUE
          /\ pc' = "createCheck"
       \/ /\ octokit' = octokit
          /\ pc' = "done"
    /\ UNCHANGED <<checkRun, res, deliveries, pr, files, prData, running, parked, parsed, env, retries, retriesIsNaN, payload, attempt, fwr, tl, error, netLog, ghLog, uniform>>

\* addReviewButton: await octokit.rest.checks.create (lines 341-371); a
\* rejection is caught at line 374 and logged.
CreateCheck ==
    /\ pc = "createCheck"
    /\ \E ok \in BOOLEAN :
          ghLog' = Append(ghLog,
              [Update("completed", "neutral", "AI Review Available",
                      "Click the button below to start AI-powered code review",
                      JStr("**PR Details:**"), "review_pr", ok)
                  EXCEPT !.op = "checks.create"])
    /\ pc' = "done"
    /\ WriteCheckRun
    /\ UNCHANGED <<res, deliveries, pr, files, prData, running, parked, parsed, env, retries, retriesIsNaN, payload, octokit, attempt, fwr, tl, error, netLog, uniform>>

\* POST /webhooks (lines 105-109): 200 when verifyAndReceive resolved, which
\* it does when the listener's promise resolved, and 400 when it rejected.
Respond ==
    /\ pc \in {"done", "rejected"}
    /\ res = 0
    /\ res' = IF pc = "done" THEN 200 ELSE 400
    /\ pc' = "idle"
    /\ UNCHANGED <<checkRun, deliveries, pr, files, prData, running, parked, parsed, env, retries, retriesIsNaN, payload, octokit, attempt, fwr, tl, error, netLog, uniform, ghLog>>

\* The app from its start: no check run yet, the Langflow endpoint and key
\* set, the flow id set or missing.
LifeInit ==
    /\ env \in [endpoint : {TRUE}, apiKey : {TRUE}, flowId : {"", "flow"}]
    /\ retries \in {0, LifeRetries}
    /\ retriesIsNaN = FALSE
    /\ payload = [event |-> "", valid |-> FALSE, hasPR |-> FALSE, action |-> ""]
    /\ pc = "idle"
    /\ octokit = FALSE
    /\ attempt = 0
    /\ fwr = Pending
    /\ tl = Pending
    /\ error = ""
    /\ netLog = <<>>
    /\ uniform = "none"
    /\ ghLog = <<>>
    /\ parsed = JUndef
    /\ running = 1
    /\ checkRun = NoCheck
    /\ res = 0
    /\ deliveries = 0
    /\ pr = JUndef
    /\ files = JUndef
    /\ prData = JUndef
    /\ parked = <<>>

LifeNext ==
    \/ Receive
    \/ AddGetOctokit
    \/ CreateCheck
    \/ Dispatch
    \/ GetOctokit
    \/ UpdateInProgress
    \/ ListPulls
    \/ GetPR
    \/ ListFiles
    \/ MergeGetOctokit
    \/ MergeListPulls
    \/ MergeUpdateInProgress
    \/ MergeGetPR
    \/ MergeListComments
    \/ TriggerValidate
    \/ Jitter
    \/ FetchFallThrough
    \/ FetchAttempt
    \/ RetryDelay
    \/ TlResponse
    \/ ReadErrorText
    \/ ReadJson
    \/ ReadJsonFails
    \/ ReadRawText
    \/ InReview /\ CompleteUpdate
    \/ InReview /\ ReviewFailed
    \/ Comment
    \/ CatchUpdate
    \/ CatchNoOctokit
    \/ InMerge /\ MergeComplete
    \/ InMerge /\ MergeFailed
    \/ MergeComment
    \/ MergeCatch
    \/ Respond

LifeSpec == LifeInit /\ [][LifeNext]_vars

\* The substrings the catch block of triggerLangflow looks for.
CatchTokens ==
    {"timeout", "ENOTFOUND", "ECONNREFUSED", "ECONNRESET", "socket hang up", "401", "404"}

\* An error message holding the tokens of S and no other.
MessageWith(S) ==
    "request failed:"
    \o (IF "404" \in S THEN " status 404" ELSE "")
    \o (IF "401" \in S THEN " status 401" ELSE "")
    \o (IF "socket hang up" \in S THEN " socket hang up" ELSE "")
    \o (IF "ECONNRESET" \in S THEN " read ECONNRESET" ELSE "")
    \o (IF "ECONNREFUSED" \in S THEN " connect ECONNREFUSED" ELSE "")
    \o (IF "ENOTFOUND" \in S THEN " getaddrinfo ENOTFOUND" ELSE "")
    \o (IF "timeout" \in S THEN " network timeout" ELSE "")

\* Errors thrown inside triggerLangflow's try block: by name, and by the
\* tokens their message holds.
ThrownErrors ==
    {[name |-> n, code |-> "", message |-> MessageWith(S)] :
        n \in {"AbortError", "FetchError", "Error"}, S \in SUBSET CatchTokens}

\* triggerLangflow at line 869, with fetchWithRetry having thrown.
CatchInit ==
    /\ fwr \in [kind : {"throw"}, error : ThrownErrors]
    /\ pc = "tl_response"
    /\ env = [endpoint |-> TRUE, apiKey |-> TRUE, flowId |-> "review-flow"]
    /\ retries = 1
    /\ retriesIsNaN = FALSE
    /\ payload = [hasPR |-> TRUE]
    /\ octokit = TRUE
    /\ attempt = 1
    /\ tl = Pending
    /\ error = ""
    /\ netLog = <<"jitter", "throw">>
    /\ uniform = "mixed"
    /\ ghLog = <<>>
    /\ parsed = JUndef
    /\ running = 1
    /\ checkRun = CreatedCheck
    /\ res = 0
    /\ deliveries = 0
    /\ pr = JUndef
    /\ files = JUndef
    /\ prData = JUndef
    /\ parked = <<>>

CatchNext == TlResponse

CatchSpec == CatchInit /\ [][CatchNext]_vars

\* ------------------------------------------- handleReviewRequest: prData
\* The longest changed-files list modelled.
MaxFiles == 12

\* files.data.slice(0, 10)
FilesLimit == 10

\* file.patch.substring(0, 1000)
PatchLimit == 1000

\* (pr.data.body || 'No description provided').substring(0, 500)
DescriptionLimit == 500

\* Array.prototype.slice(0, n)
Slice(a, n) == SubSeq(a, 1, Min(n, Len(a)))

\* Mutant: total_files counts the files forwarded.
PrDataCountsForwarded(p, f) ==
    [title |-> p.title,
     description |-> Substring(IF Truthy(p.body) THEN p.body.v ELSE "No description provided",
                               DescriptionLimit),
     files |-> [i \in 1..Len(Slice(f, FilesLimit)) |->
                   [filename |-> f[i].filename,
                    status |-> f[i].status,
                    additions |-> f[i].additions,
                    deletions |-> f[i].deletions,
                    patch |-> IF Truthy(f[i].patch)
                              THEN JStr(Substring(f[i].patch.v, PatchLimit))
                              ELSE JNull]],
     stats |-> [total_files |-> Len(Slice(f, FilesLimit)),
                additions |-> p.additions,
                deletions |-> p.deletions]]

\* prData (lines 490-526), for pr.data = p and files.data = f: the fields
\* built from the two answers by cutting; those copied from the payload and
\* the fixed tweaks are left out.
PrData(p, f) ==
    [title |-> p.title,
     description |-> Substring(IF Truthy(p.body) THEN p.body.v ELSE "No description provided",
                               DescriptionLimit),
     files |-> [i \in 1..Len(Slice(f, FilesLimit)) |->
                   [filename |-> f[i].filename,
                    status |-> f[i].status,
                    additions |-> f[i].additions,
                    deletions |-> f[i].deletions,
                    patch |-> IF Truthy(f[i].patch)
                              THEN JStr(Substring(f[i].patch.v, PatchLimit))
                              ELSE JNull]],
     stats |-> [total_files |-> Len(f),
                additions |-> p.additions,
                deletions |-> p.deletions]]

\* s repeated n times, built by halves
RECURSIVE Repeat(_, _)
Repeat(s, n) ==
    IF n = 0 THEN ""
    ELSE IF n = 1 THEN s
    ELSE Repeat(s, n \div 2) \o Repeat(s, n - n \div 2)

\* A text of n letters.
Filler(n) == Repeat(Hundred, n \div 100) \o SubSeq(Hundred, 1, n % 100)

\* Values of file.patch: absent (binary or too large a diff), empty, short,
\* and around PatchLimit.
Patches ==
    << JUndef, JStr("@@ -1 +1 @@"), JStr(Filler(PatchLimit - 1)), JStr(Filler(PatchLimit)),
       JStr(Filler(PatchLimit + 1)), JStr(""), JStr(Filler(2 * PatchLimit + 345)), JNull >>

\* The i-th entry of files.data, its patch taken from Patches at offset k.
ChangedFile(i, k) ==
    [filename |-> "src/file" \o ToString(i) \o ".js",
     status |-> IF i % 3 = 0 THEN "added" ELSE "modified",
     additions |-> i,
     deletions |-> i \div 2,
     patch |-> Patches[((i + k) % Len(Patches)) + 1]]

\* Answers of pulls.listFiles: 0 to MaxFiles changed files.
FileLists ==
    {[i \in 1..n |-> ChangedFile(i, k)] : n \in 0..MaxFiles, k \in 0..(Len(Patches) - 1)}

\* Values of pr.data.body: null, empty, short, and around DescriptionLimit.
Bodies ==
    {JNull, JStr(""), JStr("Fixes the retry loop"), JStr(Filler(DescriptionLimit - 1)),
     JStr(Filler(DescriptionLimit)), JStr(Filler(DescriptionLimit + 1)),
     JStr(Filler(3 * DescriptionLimit))}

\* Answers of pulls.get.
PullRequests ==
    {[title |-> "Fix retry loop", body |-> b, additions |-> 40, deletions |-> 2] : b \in Bodies}

\* Lines 489-526: prData is built from the two answers.
BuildPrData ==
    /\ pc = "buildPrData"
    /\ prData' = PrData(pr, files)
    /\ pc' = "trigger"
    /\ UNCHANGED <<checkRun, res, deliveries, pr, files, running, parked, parsed, env, retries, retriesIsNaN, payload, octokit, attempt, fwr, tl, error, netLog, uniform, ghLog>>

\* handleReviewRequest at line 488, with both answers received.
PayloadInit ==
    /\ pr \in PullRequests
    /\ files \in FileLists
    /\ prData = JUndef
    /\ pc = "buildPrData"
    /\ env = [endpoint |-> TRUE, apiKey |-> TRUE, flowId |-> "review-flow"]
    /\ retries = 1
    /\ retriesIsNaN = FALSE
    /\ payload = [hasPR |-> TRUE]
    /\ octokit = TRUE
    /\ attempt = 0
    /\ fwr = Pending
    /\ tl = Pending
    /\ error = ""
    /\ netLog = <<>>
    /\ uniform = "none"
    /\ ghLog = <<Call("pulls.get", TRUE), Call("pulls.listFiles", TRUE)>>
    /\ parsed = JUndef
    /\ running = 1
    /\ checkRun = CreatedCheck
    /\ res = 0
    /\ deliveries = 0
    /\ parked = <<>>

PayloadNext == BuildPrData

PayloadSpec == PayloadInit /\ [][PayloadNext]_vars

\* ------------------------------------------------ CONFIG.langflow.retries
Digits == "0123456789"

IsDigit(c) == \E i \in 1..Len(Digits) : SubSeq(Digits, i, i) = c

DigitValue(c) == (CHOOSE i \in 1..Len(Digits) : SubSeq(Digits, i, i) = c) - 1

\* The value of the longest run of digits of s that starts at position i,
\* after the digits that gave acc.
RECURSIVE DigitsFrom(_, _, _)
DigitsFrom(s, i, acc) ==
    IF i <= Len(s) /\ IsDigit(SubSeq(s, i, i))
    THEN DigitsFrom(s, i + 1, 10 * acc + DigitValue(SubSeq(s, i, i)))
    ELSE acc

\* The position of the first character of s that is not a space, from i on.
RECURSIVE SkipSpaces(_, _)
SkipSpaces(s, i) ==
    IF i <= Len(s) /\ SubSeq(s, i, i) = " " THEN SkipSpaces(s, i + 1) ELSE i

\* parseInt(s): leading spaces are skipped, a sign is read, then the longest
\* run of decimal digits; NaN when there is no digit there.
ParseInt(s) ==
    LET start == SkipSpaces(s, 1)
        signed == start <= Len(s) /\ SubSeq(s, start, start) \in {"-", "+"}
        first == IF signed THEN start + 1 ELSE start
        magnitude == DigitsFrom(s, first, 0)
    IN  IF first <= Len(s) /\ IsDigit(SubSeq(s, first, first))
        THEN [nan |-> FALSE,
              n |-> IF signed /\ SubSeq(s, start, start) = "-" THEN 0 - magnitude ELSE magnitude]
        ELSE [nan |-> TRUE, n |-> 0]

\* process.env.LANGFLOW_RETRIES || '3' ("" stands for unset and for empty)
RetriesSetting(s) == IF s = "" THEN "3" ELSE s

\* Values of LANGFLOW_RETRIES.
RetrySettings == {"", "0", "1", "2", "3", "abc", "x2", "2x", " 1", "-1", "0.9", "NaN", "none"}

\* One invocation of handleReviewRequest, CONFIG having been built at start-up
\* (line 27) from one of the settings.
RetriesInit ==
    /\ \E s \in RetrySettings :
          LET parsedRetries == ParseInt(RetriesSetting(s)) IN
          /\ retriesIsNaN = parsedRetries.nan
          /\ retries = parsedRetries.n
    /\ env \in [endpoint : BOOLEAN, apiKey : BOOLEAN, flowId : FlowIds]
    /\ payload \in [hasPR : BOOLEAN]
    /\ pc = "getOctokit"
    /\ octokit = FALSE
    /\ attempt = 0
    /\ fwr = Pending
    /\ tl = Pending
    /\ error = ""
    /\ netLog = <<>>
    /\ uniform = "none"
    /\ ghLog = <<>>
    /\ parsed = JUndef
    /\ running = 1
    /\ checkRun = CreatedCheck
    /\ res = 0
    /\ deliveries = 0
    /\ pr = JUndef
    /\ files = JUndef
    /\ prData = JUndef
    /\ parked = <<>>

RetriesSpec == RetriesInit /\ [][Next]_vars

\* triggerLangflow alone, at line 934, with the response body parsed.
ExtractInit ==
    /\ parsed \in ExtractInputs
    /\ pc = "extract"
    /\ env = [endpoint |-> TRUE, apiKey |-> TRUE, flowId |-> "review-flow"]
    /\ retries = 1
    /\ retriesIsNaN = FALSE
    /\ payload = [hasPR |-> TRUE]
    /\ octokit = FALSE
    /\ attempt = 1
    /\ fwr = [kind |-> "response", status |-> 200]
    /\ tl = Pending
    /\ error = ""
    /\ netLog = <<"jitter", "2xx">>
    /\ uniform = "200"
    /\ ghLog = <<>>
    /\ running = 1
    /\ checkRun = CreatedCheck
    /\ res = 0
    /\ deliveries = 0
    /\ pr = JUndef
    /\ files = JUndef
    /\ prData = JUndef
    /\ parked = <<>>

ExtractNext == Extract

ExtractSpec == ExtractInit /\ [][ExtractNext]_vars

\* ------------------------------------------------------------ the claims
IsFetch(e) == e \in {"2xx", "4xx", "5xx", "throw"}

IsDelay(e) == e = "delay"

\* The fetch calls made so far, by class, in order.
Fetches == SelectSeq(netLog, IsFetch)

\* The number of retry delays slept so far.
Delays == Len(SelectSeq(netLog, IsDelay))

\* netLog without the jitter sleep that precedes the first fetch.
RetryLog == IF netLog = <<>> THEN <<>> ELSE Tail(netLog)

\* n failed attempts of class c, a delay after each, then a last attempt of class last.
Alternating(n, c, last) ==
    [i \in 1..(2 * n + 1) |->
        IF i = 2 * n + 1 THEN last ELSE IF i % 2 = 0 THEN "delay" ELSE c]

\* C1: when the first k-1 attempts return 5xx and attempt k returns 2xx,
\* fetchWithRetry returns that 2xx response after exactly k calls to fetch and
\* exactly k-1 retry delays (one after each 5xx), and no call follows.
C1_SuccessAfterServerErrors ==
    \A k \in 1..retries :
        ( /\ Len(Fetches) >= k
          /\ \A i \in 1..(k - 1) : Fetches[i] = "5xx"
          /\ Fetches[k] = "2xx" )
        => /\ Len(Fetches) = k
           /\ Delays = k - 1
           /\ RetryLog = Alternating(k - 1, "5xx", "2xx")
           /\ fwr.kind = "response"
           /\ IsOk(fwr.status)

C1_Witness ==
    /\ retries = 3
    /\ pc = "done"
    /\ Fetches = <<"5xx", "5xx", "2xx">>
    /\ fwr.kind = "response"

\* C2: when the first attempt returns 4xx, fetchWithRetry returns that response
\* after exactly one call to fetch and no retry delay, whatever retries is.
C2_ClientErrorNotRetried ==
    (Len(Fetches) >= 1 /\ Fetches[1] = "4xx")
    => /\ RetryLog = <<"4xx">>
       /\ fwr.kind = "response"
       /\ ClassOf(fwr) = "4xx"
       /\ uniform = Label(fwr)

C2_Witness ==
    /\ retries = 3
    /\ pc = "done"
    /\ Fetches = <<"4xx">>
    /\ fwr.status = 429

\* C3: when every attempt throws, fetchWithRetry propagates the error of the
\* last attempt after exactly `retries` calls to fetch, with a retry delay
\* after each attempt but the last.
C3_ThrowsAfterAllAttempts ==
    ( /\ retries >= 1
      /\ fwr.kind # "pending"
      /\ \A i \in 1..Len(Fetches) : Fetches[i] = "throw" )
    => /\ fwr.kind = "throw"
       /\ Len(Fetches) = retries
       /\ Delays = retries - 1
       /\ RetryLog = Alternating(retries - 1, "throw", "throw")
       /\ uniform # "mixed" => fwr.error.code = uniform

C3_Witness ==
    /\ retries = 3
    /\ pc = "done"
    /\ Fetches = <<"throw", "throw", "throw">>
    /\ uniform = "aborted"
    /\ fwr.kind = "throw"

\* C4: one call of fetchWithRetry makes at most `retries` calls to fetch;
\* every attempt, thrown or answered, uses up one unit of the one counter
\* `attempt`, the only state carried from one attempt to the next.
C4_AtMostRetriesAttempts ==
    /\ Len(Fetches) <= retries
    /\ pc = "fetch" => Len(Fetches) = attempt - 1
    /\ pc = "retryDelay" => Len(Fetches) = attempt /\ attempt < retries
    /\ fwr.kind \in {"response", "throw"} => Len(Fetches) = attempt

C4_Witness ==
    /\ retries = 3
    /\ fwr.kind = "response"
    /\ Fetches = <<"5xx", "throw", "5xx">>

\* The fields of the object triggerLangflow resolved with.
ResultFields == DOMAIN tl \ {"kind"}

\* C5: triggerLangflow never rejects: whatever the configuration check,
\* fetchWithRetry, the body read and the parsed JSON value give, it resolves
\* with {success: true, message, data} or {success: false, error,
\* originalError}; a 2xx response whose body is not JSON gives success: false.
C5_NeverRejects ==
    /\ [](/\ tl.kind \in {"pending", "resolved"}
          /\ pc \in {"afterTrigger", "comment"} => tl.kind = "resolved"
          /\ tl.kind = "resolved" =>
                IF tl.success
                THEN ResultFields = {"success", "message", "data"}
                ELSE ResultFields = {"success", "error", "originalError"})
    /\ [][pc = "tl_rawText" => tl'.kind = "resolved" /\ ~tl'.success]_vars

C5_Witness ==
    /\ pc = "afterTrigger"
    /\ fwr.kind = "response"
    /\ fwr.status = 200
    /\ ~tl.success
    /\ tl.originalError = "Invalid JSON response from Langflow API"

ConfigMissing == ~env.endpoint \/ ~env.apiKey \/ env.flowId = ""

\* C6: with LANGFLOW_ENDPOINT or LANGFLOW_API_KEY unset or an empty flow id,
\* triggerLangflow returns a success: false result whose message names a
\* missing item, with no jitter sleep and no call to fetch.
C6_ConfigFailsFast ==
    ConfigMissing =>
        /\ netLog = <<>>
        /\ pc \notin {"jitter", "fetch", "retryDelay", "tl_response",
                      "tl_errorText", "tl_json", "tl_rawText", "comment"}
        /\ pc = "afterTrigger" => tl.kind = "resolved"
        /\ tl.kind = "resolved" =>
              /\ ~tl.success
              /\ tl.error = tl.originalError
              /\ \/ ~env.endpoint /\ Includes(tl.error, "LANGFLOW_ENDPOINT")
                 \/ ~env.apiKey /\ Includes(tl.error, "LANGFLOW_API_KEY")
                 \/ env.flowId = "" /\ Includes(tl.error, "Flow ID")

C6_Witness ==
    /\ pc = "done"
    /\ env.endpoint
    /\ env.apiKey
    /\ env.flowId = ""
    /\ tl.kind = "resolved"
    /\ netLog = <<>>

\* The check-run updates made so far, in order.
IsUpdate(c) == c.op = "checks.update"

Updates == SelectSeq(ghLog, IsUpdate)

\* Every call to GitHub made so far succeeded.
AllCallsOk == \A i \in 1..Len(ghLog) : ghLog[i].ok

\* The workflow call has used up its attempts, each with outcome `label`.
EveryAttempt(label) ==
    /\ retries >= 1
    /\ Len(Fetches) = retries
    /\ uniform = label

\* The last check-run update of a finished invocation is a completed one
\* with conclusion 'neutral' and the 'AI Review Unavailable' title.
EndsUnavailable ==
    /\ Updates # <<>>
    /\ LET u == Updates[Len(Updates)] IN
          /\ u.status = "completed"
          /\ u.conclusion = "neutral"
          /\ u.title = "AI Review Unavailable"

\* C7: when every attempt of a review request returns HTTP 504 (and the calls
\* to GitHub succeed), the terminal
\* check-run update has conclusion 'neutral' ('AI Review Unavailable'), not
\* 'failure', with a message of the temporarily-unavailable class.
C7_GatewayTimeoutEndsNeutral ==
    (pc = "done" /\ EveryAttempt("504") /\ AllCallsOk) =>
        /\ EndsUnavailable
        /\ \/ Includes(error, "temporarily unavailable")
           \/ Includes(error, "high load")

AllGood == Field("result", JStr("All good"))

\* The case of C8: the workflow answered 200 with {result: "All good"} and
\* every GitHub call succeeded.
AllGoodRun ==
    /\ pc = "done"
    /\ fwr.kind = "response"
    /\ fwr.status = 200
    /\ tl.kind = "resolved"
    /\ tl.success
    /\ tl.data = AllGood
    /\ AllCallsOk

\* C8 as stated: one update to 'in_progress', then one to 'completed' with
\* conclusion 'neutral' whose summary is "All good", and no other update.
C8_SummaryIsAllGood ==
    AllGoodRun =>
        /\ Len(Updates) = 2
        /\ Updates[1].status = "in_progress"
        /\ Updates[2].status = "completed"
        /\ Updates[2].conclusion = "neutral"
        /\ Updates[2].summary = "All good"

\* C8 as amended: one update to 'in_progress', then one to 'completed' with
\* conclusion 'neutral' whose output text is "All good" (its summary is the
\* fixed 'Code review completed successfully'), and no other update.
C8_TextIsAllGood ==
    AllGoodRun =>
        /\ Len(Updates) = 2
        /\ Updates[1].status = "in_progress"
        /\ Updates[2].status = "completed"
        /\ Updates[2].conclusion = "neutral"
        /\ Updates[2].summary = "Code review completed successfully"
        /\ Updates[2].text = JStr("All good")

C8_Witness ==
    /\ AllGoodRun
    /\ ~payload.hasPR
    /\ Len(Updates) = 2

\* C9: when the workflow call fails for a transient reason after the retry
\* budget is used up (every attempt 500, 502 or 503, or aborted by the
\* timeout, or reset) and the calls to GitHub succeed, the terminal check-run
\* update has conclusion 'neutral'.
C9_TransientEndsNeutral ==
    ( /\ pc = "done"
      /\ AllCallsOk
      /\ \E label \in {"500", "502", "503", "aborted", "ECONNRESET"} :
            EveryAttempt(label) )
    => EndsUnavailable

TableStatuses == {400, 401, 403, 404, 429, 500, 502, 503, 504}

\* The table message for the status, with at most DetailsMax characters of a
\* non-empty body after " Details: ".
IsTableMessage(msg, status) ==
    \/ msg = StatusMessage(status, env.flowId)
    \/ \E body \in ErrorBodies \ {""} :
          msg = StatusMessage(status, env.flowId) \o " Details: "
                \o SubSeq(body, 1, Min(Len(body), DetailsMax))

\* C10: for a response with status s in the table, the field `error` of the
\* result is the table message for s, followed by the details suffix when the
\* body is not empty, whatever the body says.
C10_ErrorIsTableMessage ==
    ( /\ tl.kind = "resolved"
      /\ fwr.kind = "response"
      /\ fwr.status \in TableStatuses )
    => IsTableMessage(tl.error, fwr.status)

\* x.k, or undefined where x has no properties to read
At(x, k) == IF Throws(x) THEN JUndef ELSE Get(x, k)

\* x[0], or undefined where x has no properties to read
At0(x) == IF Throws(x) THEN JUndef ELSE First(x)

\* outputs[0].outputs[0].results.message.data.text of a body
NestedText(b) ==
    At(At(At(At(At0(At(At0(At(b, "outputs")), "outputs")), "results"),
             "message"), "data"), "text")

\* result when it is a string, else result.text, else result.message
ResultValue(b) ==
    LET r == At(b, "result") IN
    IF r.t = "str" THEN r
    ELSE IF Truthy(At(r, "text")) THEN At(r, "text")
    ELSE At(r, "message")

\* data.text of a body
DataText(b) == At(At(b, "data"), "text")

\* The value of the first of the three shapes that holds one, else the default.
FirstPresent(b) ==
    IF Truthy(NestedText(b)) THEN NestedText(b)
    ELSE IF Truthy(ResultValue(b)) THEN ResultValue(b)
    ELSE IF Truthy(DataText(b)) THEN DataText(b)
    ELSE JStr(DefaultMessage)

\* A string that neither clamp changes.
Plain(v) ==
    /\ v.t = "str"
    /\ Len(v.v) <= MaxMessageLength
    /\ ~(Includes(v.v, "PR #") /\ Includes(v.v, "not found"))

\* C11: for a parsed body of a 2xx response the message is the value of the
\* first shape that is present, in the order outputs[0].outputs[0].results
\* .message.data.text, result (a string, or its text, or its message),
\* data.text, and the default 'Analysis completed successfully' when none is.
C11_FirstPresentShape ==
    (pc = "extracted" /\ tl.success /\ Plain(FirstPresent(parsed)))
    => tl.message = FirstPresent(parsed)

\* C12: every parsed body of a 2xx response gives success: true with a string
\* message; a body that fits no shape, or fits one in part, never gives
\* success: false.
C12_EveryBodySucceeds ==
    pc = "extracted" => tl.success /\ tl.message.t = "str"

\* The message as line 967 leaves it, when it is a string.
Extracted == ExtractMessage(parsed)

\* C13: an extracted message (a string) holding both "PR #" and "not found"
\* is returned as the fixed generic summary, with success: true; one that
\* lacks either is kept, subject to the length clamp only.
C13_NotFoundSubstituted ==
    (pc = "extracted" /\ Extracted.t = "str") =>
        /\ tl.success
        /\ IF Includes(Extracted.v, "PR #") /\ Includes(Extracted.v, "not found")
           THEN tl.message = JStr(GenericSummary)
           ELSE /\ tl.message.t = "str"
                /\ Len(Extracted.v) <= MaxMessageLength => tl.message = Extracted
                /\ Len(Extracted.v) > MaxMessageLength =>
                      /\ tl.message # Extracted
                      /\ SubSeq(tl.message.v, 1, MaxMessageLength)
                           = SubSeq(Extracted.v, 1, MaxMessageLength)

C13_Witness ==
    /\ pc = "extracted"
    /\ parsed = Field("result", JStr("Error: PR #12 not found in repository"))
    /\ tl.success
    /\ tl.message = JStr(GenericSummary)

\* The message after the not-found substitution, as C13 states it.
Substituted ==
    IF Includes(Extracted.v, "PR #") /\ Includes(Extracted.v, "not found")
    THEN GenericSummary
    ELSE Extracted.v

\* C14: a message of more than 65000 characters is returned as its first
\* 65000 characters followed by the truncation marker (65000 plus the
\* marker's length in all); one of at most 65000 characters is returned
\* unchanged; the clamp is applied to the message after the not-found
\* substitution.
C14_LengthClamped ==
    (pc = "extracted" /\ Extracted.t = "str") =>
        /\ tl.success
        /\ tl.message.t = "str"
        /\ IF Len(Substituted) > MaxMessageLength
           THEN /\ tl.message.v = SubSeq(Substituted, 1, MaxMessageLength) \o TruncationMarker
                /\ Len(tl.message.v) = MaxMessageLength + Len(TruncationMarker)
           ELSE tl.message.v = Substituted

C14_Witness ==
    /\ pc = "extracted"
    /\ parsed = Field("result", JStr(SeventyThousand))
    /\ Len(tl.message.v) = MaxMessageLength + Len(TruncationMarker)
    /\ SubSeq(tl.message.v, MaxMessageLength + 1, Len(tl.message.v)) = TruncationMarker

\* The invocation has ended: it returned, or its promise was rejected.
Ended == pc \in {"done", "rejected"}

\* A write to GitHub that users can see, and that succeeded.
VisibleWrite(c) == c.ok /\ c.op \in {"checks.update", "issues.createComment"}

CompletedWrite(c) == c.ok /\ c.op = "checks.update" /\ c.status = "completed"

\* C15: at the end of an invocation either a 'completed' check-run update
\* was written, or no visible write (in_progress update, comment) succeeded:
\* no run leaves a check in 'in_progress', or a comment, without a completed
\* check run.
C15_CompletedOrNothing ==
    Ended =>
        \/ \E i \in 1..Len(ghLog) : CompletedWrite(ghLog[i])
        \/ \A i \in 1..Len(ghLog) : ~VisibleWrite(ghLog[i])

\* C16: when handleMergeCheck fails at a step before completion it attempts
\* one update to 'completed' with conclusion 'neutral' ('Merge Check
\* Unavailable') when it holds a GitHub client, and returns without raising.
C16_MergeFailureHandled ==
    (Ended /\ error # "") =>
        /\ pc = "done"
        /\ octokit =>
              /\ ghLog # <<>>
              /\ LET u == ghLog[Len(ghLog)] IN
                    /\ u.op = "checks.update"
                    /\ u.status = "completed"
                    /\ u.conclusion = "neutral"
                    /\ u.title = "Merge Check Unavailable"

\* The message says the PR is not ready.
SaysNotReady(m) == Includes(ToLowerCase(m), "not ready")

\* C17: after a successful workflow result the completion update of
\* handleMergeCheck has conclusion 'success' ('Ready to Merge!') when the
\* message holds 'ready' in any case, and 'neutral' ('Not Ready to Merge')
\* otherwise; a message saying the PR is not ready gives 'neutral'.
C17_ReadinessRule ==
    \A i \in 1..Len(ghLog) :
        (ghLog[i].op = "checks.update" /\ ghLog[i].status = "completed") =>
            LET m == tl.message.v
                ready == Includes(ToLowerCase(m), "ready") /\ ~SaysNotReady(m)
            IN  /\ ready => /\ ghLog[i].conclusion = "success"
                            /\ ghLog[i].title = "Ready to Merge!"
                /\ ~ready => /\ ghLog[i].conclusion = "neutral"
                             /\ ghLog[i].title = "Not Ready to Merge"

\* The invocations, and the locals of each.
Ids == DOMAIN parked \cup {running}

Invocation(i) == IF i = running THEN Locals ELSE parked[i]

\* The check-run updates an invocation has attempted with the given status.
UpdatesOf(L, status) ==
    {k \in 1..Len(L.ghLog) :
        L.ghLog[k].op = "checks.update" /\ L.ghLog[k].status = status}

\* C18: invocations for the same check run are not coordinated. Each one
\* that gets as far as the workflow makes its own workflow call (N events,
\* N calls) and its own status updates; a step of one invocation changes no
\* local of another, and no step writes the configuration they share, so the
\* result and the updates of one are the same under every interleaving.
C18_NoCoordination ==
    /\ [](\A i \in Ids :
            LET L == Invocation(i) IN
            /\ L.tl.kind = "resolved" =>
                  /\ L.netLog # <<>>
                  /\ L.netLog[1] = "jitter"
                  /\ Len(SelectSeq(L.netLog, IsFetch)) \in 1..retries
            /\ (L.pc = "done" /\ \E k \in 1..Len(L.ghLog) :
                    L.ghLog[k].op = "pulls.listFiles" /\ L.ghLog[k].ok)
                  => L.tl.kind = "resolved"
            /\ (L.pc = "done" /\ L.octokit) =>
                  /\ Cardinality(UpdatesOf(L, "in_progress")) = 1
                  /\ Cardinality(UpdatesOf(L, "completed")) = 1)
    /\ [][/\ env' = env
          /\ retries' = retries
          /\ Ids' = Ids
          /\ \A i \in Ids :
                (i # running \/ running' # running) => Invocation(i)' = Invocation(i)]_vars

C18_Witness ==
    /\ Ids = {1, 2}
    /\ \A i \in Ids :
          /\ Invocation(i).pc = "done"
          /\ Invocation(i).netLog = <<"jitter", "2xx">>
          /\ Cardinality(UpdatesOf(Invocation(i), "completed")) = 1
    /\ Invocation(1).tl.message = JStr("All good")
    /\ Invocation(2).tl.message = JStr("Looks good")

\* The longest one call of fetchWithRetry can have taken so far, in
\* milliseconds: every attempt made lasts at most Timeout (the timer of line
\* 163 aborts it) and every retry delay lasts RetryDelayMs.
WorstElapsed == Len(Fetches) * Timeout + Delays * RetryDelayMs

\* C19: one call of fetchWithRetry ends within retries x (timeout +
\* retryDelay): it spends at most `retries` attempts and at most `retries`
\* delays (in fact one delay fewer than attempts), whatever the outcomes.
C19_WithinTimeBudget ==
    /\ Len(Fetches) <= retries
    /\ Delays <= retries
    /\ Delays <= Len(Fetches)
    /\ fwr.kind # "pending" => Delays = Len(Fetches) - 1 \/ retries = 0
    /\ WorstElapsed <= retries * (Timeout + RetryDelayMs)
    /\ pc \in {"fetch", "retryDelay"} => fwr.kind = "pending"

C19_Witness ==
    /\ retries = 3
    /\ fwr.kind = "throw"
    /\ Fetches = <<"throw", "5xx", "throw">>
    /\ Delays = 2
    /\ WorstElapsed = 3 * Timeout + 2 * RetryDelayMs

\* The message holds one of the transient-service patterns.
HasTransientPattern(msg) ==
    \/ Includes(msg, "timeout")
    \/ Includes(msg, "504")
    \/ Includes(msg, "GATEWAY_TIMEOUT")
    \/ Includes(msg, "high load")

\* C20: in handleReviewRequest, when the success: false message of the
\* workflow client holds a transient-service pattern ('timeout', '504' or
\* gateway timeout, 'high load'), the terminal check-run update has
\* conclusion 'neutral', not 'failure'.
C20_TransientMessageEndsNeutral ==
    ( /\ pc = "done"
      /\ tl.kind = "resolved"
      /\ ~tl.success
      /\ HasTransientPattern(tl.error)
      /\ AllCallsOk )
    => /\ Updates # <<>>
       /\ Updates[Len(Updates)].status = "completed"
       /\ Updates[Len(Updates)].conclusion = "neutral"

\* A step before the workflow call failed: the PR lookup, or fetching the PR
\* or its files (the client was acquired and triggerLangflow never called).
ContextFailed == octokit /\ error # "" /\ tl.kind = "pending"

\* The check-run updates to 'completed' attempted so far.
CompletedUpdates == {k \in 1..Len(ghLog) : IsUpdate(ghLog[k]) /\ ghLog[k].status = "completed"}

\* C21: in handleReviewRequest a failure of the PR lookup or of fetching the
\* PR or its file list leads directly to one terminal check-run update with
\* the unavailable outcome (conclusion 'neutral'), attempted once.
C21_ContextFailureEndsUnavailable ==
    (pc = "done" /\ ContextFailed) =>
        /\ Cardinality(CompletedUpdates) = 1
        /\ LET u == ghLog[Len(ghLog)] IN
              /\ IsUpdate(u)
              /\ u.status = "completed"
              /\ u.conclusion = "neutral"
              /\ u.title = "AI Review Unavailable"

\* A request for repository data: PR lookup by commit, PR details, files, comments.
IsDataRequest(c) ==
    c.op \in {"pulls.list", "pulls.get", "pulls.listFiles", "issues.listComments"}

\* C22: a failed check-run update to 'in_progress' does not block the
\* invocation, in handleReviewRequest and in handleMergeCheck alike: the
\* repository data is requested after it as after a successful one, and the
\* invocation ends by returning.
C22_InProgressFailureNotFatal ==
    \A k \in 1..Len(ghLog) :
        (Ended /\ IsUpdate(ghLog[k]) /\ ghLog[k].status = "in_progress" /\ ~ghLog[k].ok)
        => /\ pc = "done"
           /\ Len(ghLog) > k
           /\ IsDataRequest(ghLog[k + 1])

\* The check-run updates to 'in_progress' attempted so far.
InProgressUpdates ==
    {k \in 1..Len(ghLog) : IsUpdate(ghLog[k]) /\ ghLog[k].status = "in_progress"}

InWorkflowCall ==
    pc \in {"trigger", "jitter", "fetch", "retryDelay", "tl_response",
            "tl_errorText", "tl_json", "tl_rawText"}

\* C24: every invocation, in both handlers, takes its external steps in one
\* order: the 'in_progress' update is attempted before any repository data is
\* requested, every repository data request comes before the workflow call,
\* and the 'completed' update comes after the workflow call has returned; a
\* step starts only when the one before has ended.
C24_StrictOrder ==
    /\ [](/\ \A k \in 1..Len(ghLog) :
                IsDataRequest(ghLog[k]) => \E i \in InProgressUpdates : i < k
          /\ \A c \in CompletedUpdates : ~InWorkflowCall /\ (netLog # <<>> => tl.kind = "resolved")
          /\ InWorkflowCall => tl.kind = "pending")
    /\ [][(InWorkflowCall \/ tl.kind # "pending") =>
              \/ ghLog' = ghLog
              \/ /\ Len(ghLog') = Len(ghLog) + 1
                 /\ ~IsDataRequest(ghLog'[Len(ghLog')])
                 /\ ~InWorkflowCall]_vars

\* The PR comments attempted so far.
Comments == {k \in 1..Len(ghLog) : ghLog[k].op = "issues.createComment"}

\* triggerLangflow returned a success.
WorkflowSucceeded == tl.kind = "resolved" /\ tl.success

\* C25: handleReviewRequest attempts the PR comment exactly when the workflow
\* result is a success: once, right after the completion update, whether that
\* update succeeded or not; nothing follows the comment, posted or not (no
\* error update); on a failure path no comment is attempted.
C25_CommentIffSuccess ==
    /\ Cardinality(Comments) <= 1
    /\ \A k \in Comments :
          /\ WorkflowSucceeded
          /\ k > 1
          /\ IsUpdate(ghLog[k - 1])
          /\ ghLog[k - 1].status = "completed"
          /\ ghLog[k - 1].title = "AI Review Complete"
          /\ k = Len(ghLog)
          /\ pc = "done"
    /\ (pc = "done" /\ WorkflowSucceeded) => Comments # {}
    /\ ~WorkflowSucceeded => Comments = {}

C25_Witness ==
    /\ pc = "done"
    /\ Len(ghLog) > 1
    /\ ghLog[Len(ghLog)].op = "issues.createComment"
    /\ ~ghLog[Len(ghLog)].ok
    /\ ~ghLog[Len(ghLog) - 1].ok

\* The classification rules in their order: the tokens of each, and its message.
CategoryRules ==
    << [tokens |-> {"timeout"},
        text |-> "The AI analysis timed out. This usually happens when the service is overloaded. Please try again in a few minutes."],
       [tokens |-> {"ENOTFOUND", "ECONNREFUSED"},
        text |-> "Cannot connect to the AI service. Please check if the Langflow endpoint is correct and accessible."],
       [tokens |-> {"ECONNRESET", "socket hang up"},
        text |-> "Connection to the AI service was interrupted. Please try again."],
       [tokens |-> {"401"},
        text |-> "Authentication failed. Please check the API key configuration."],
       [tokens |-> {"404"},
        text |-> "The specified AI flow was not found. Please check the flow configuration."] >>

\* Rule i applies to the error: its message holds one of the rule's tokens,
\* or (rule 1) it is an AbortError.
RuleMatches(i, err) ==
    \/ \E tok \in CategoryRules[i].tokens : Includes(err.message, tok)
    \/ i = 1 /\ err.name = "AbortError"

\* The message of the first rule that applies, else the error's own message.
FirstCategory(err) ==
    IF \E i \in 1..Len(CategoryRules) : RuleMatches(i, err)
    THEN LET first == CHOOSE i \in 1..Len(CategoryRules) :
                          /\ RuleMatches(i, err)
                          /\ \A j \in 1..(i - 1) : ~RuleMatches(j, err)
         IN  CategoryRules[first].text
    ELSE err.message

\* C26: an error thrown inside triggerLangflow is classified by the first
\* rule that applies, in the order timeout, DNS/connection refused,
\* connection reset, auth, not found, else its own message; the result is
\* success: false with `error` the category message and `originalError` the
\* error's message, unchanged.
C26_FirstMatchingCategory ==
    (pc = "afterTrigger" /\ fwr.kind = "throw") =>
        /\ tl.kind = "resolved"
        /\ ~tl.success
        /\ ResultFields = {"success", "error", "originalError"}
        /\ tl.error = FirstCategory(fwr.error)
        /\ tl.originalError = fwr.error.message

C26_Witness ==
    /\ pc = "afterTrigger"
    /\ fwr.error.name = "Error"
    /\ fwr.error.message = MessageWith({"404", "401", "ECONNRESET"})
    /\ tl.error = CategoryRules[3].text
    /\ tl.originalError = "request failed: status 404 status 401 read ECONNRESET"

\* getOctokit failed in the invocation with locals L.
CredentialFailed(L) == ~L.octokit /\ L.error # ""

\* The calls of a review that went through with every call accepted.
FullReview(L) ==
    /\ Len(L.ghLog) = 5
    /\ \A k \in 1..5 : L.ghLog[k].ok
    /\ L.ghLog[1].status = "in_progress"
    /\ L.ghLog[2].op = "pulls.get"
    /\ L.ghLog[3].op = "pulls.listFiles"
    /\ L.ghLog[4].status = "completed"
    /\ L.ghLog[5].op = "issues.createComment"

\* C27: when getOctokit fails in handleReviewRequest the invocation makes no
\* check-run update, no repository data request, no workflow call and no
\* comment, and returns without raising; the failing step writes nothing but
\* the invocation's own error, so another invocation whose getOctokit
\* succeeds runs as it would alone.
C27_CredentialFailureIsLocal ==
    /\ [](\A i \in Ids :
            LET L == Invocation(i) IN
            CredentialFailed(L) =>
                /\ L.ghLog = <<>>
                /\ L.netLog = <<>>
                /\ L.tl.kind = "pending"
                /\ L.fwr.kind = "pending"
                /\ L.pc \in {"catch", "done"})
    /\ [][(pc = "getOctokit" /\ running' = running /\ ~octokit') =>
              /\ pc' = "catch"
              /\ [Locals EXCEPT !.error = "", !.pc = ""]'
                   = [Locals EXCEPT !.error = "", !.pc = ""]
              /\ UNCHANGED <<env, retries, retriesIsNaN, parked>>]_vars
    /\ [][\A i \in Ids :
              (CredentialFailed(Invocation(i)) /\ Invocation(i).pc = "done")
              => Invocation(i)' = Invocation(i)]_vars

C27_Witness ==
    /\ Ids = {1, 2}
    /\ CredentialFailed(Invocation(1))
    /\ Invocation(1).pc = "done"
    /\ Invocation(2).pc = "done"
    /\ Invocation(2).octokit
    /\ Invocation(2).tl.kind = "resolved"
    /\ Invocation(2).tl.success
    /\ FullReview(Invocation(2))

\* The patch forwarded for a file: the first PatchLimit characters of its
\* patch text, or null when it has none (no patch field, null, or empty).
ForwardedPatch(f) ==
    IF f.patch.t = "str" /\ f.patch.v # ""
    THEN JStr(SubSeq(f.patch.v, 1, Min(Len(f.patch.v), PatchLimit)))
    ELSE JNull

\* The description before it is cut: the PR body, or the fixed text when the
\* PR has none.
Description ==
    IF pr.body.t = "str" /\ pr.body.v # "" THEN pr.body.v ELSE "No description provided"

\* C28: the payload forwarded to the workflow holds at most 10 files, the
\* first 10 of the changed-files list in their order, each patch cut to its
\* first 1000 characters (null when there is none), and the description cut
\* to its first 500 characters; stats.total_files is the length of the whole
\* changed-files list.
C28_PayloadIsCut ==
    pc = "trigger" =>
        /\ Len(prData.files) <= FilesLimit
        /\ Len(prData.files) = Min(Len(files), FilesLimit)
        /\ \A i \in 1..Len(prData.files) :
              /\ prData.files[i].filename = files[i].filename
              /\ prData.files[i].status = files[i].status
              /\ prData.files[i].additions = files[i].additions
              /\ prData.files[i].deletions = files[i].deletions
              /\ prData.files[i].patch = ForwardedPatch(files[i])
              /\ prData.files[i].patch.t = "str" => Len(prData.files[i].patch.v) <= PatchLimit
        /\ Len(prData.description) <= DescriptionLimit
        /\ prData.description = SubSeq(Description, 1, Min(Len(Description), DescriptionLimit))
        /\ prData.stats.total_files = Len(files)

C28_Witness ==
    /\ pc = "trigger"
    /\ Len(files) = 12
    /\ Len(prData.files) = 10
    /\ prData.files[10].filename = "src/file10.js"
    /\ files[3].patch.t = "str"
    /\ Len(files[3].patch.v) = 1001
    /\ Len(prData.files[3].patch.v) = 1000
    /\ pr.body.t = "str"
    /\ Len(pr.body.v) = 501
    /\ Len(prData.description) = 500
    /\ prData.stats.total_files = 12

\* C29: when every attempt returns a 5xx response, fetchWithRetry does not
\* throw: it returns the response of the last attempt after exactly `retries`
\* calls to fetch and `retries` - 1 retry delays, none after the last attempt.
C29_ServerErrorsReturnLastResponse ==
    ( /\ retries >= 1
      /\ fwr.kind # "pending"
      /\ \A i \in 1..Len(Fetches) : Fetches[i] = "5xx" )
    => /\ fwr.kind = "response"
       /\ fwr.status >= 500
       /\ Len(Fetches) = retries
       /\ Delays = retries - 1
       /\ RetryLog = Alternating(retries - 1, "5xx", "5xx")
       /\ netLog[Len(netLog)] = "5xx"
       /\ uniform # "mixed" => ToString(fwr.status) = uniform

C29_Witness ==
    /\ retries = 3
    /\ pc = "tl_errorText"
    /\ Fetches = <<"5xx", "5xx", "5xx">>
    /\ Delays = 2
    /\ uniform = "mixed"
    /\ fwr.kind = "response"
    /\ fwr.status = 502

\* CONFIG.langflow.retries is 0 or not a number.
NoRetries == retriesIsNaN \/ retries = 0

\* C30: when the configured retry count is 0 or not a number, fetchWithRetry
\* makes no call to fetch and returns no response, and triggerLangflow
\* returns a success: false result instead of raising: the workflow is never
\* called.
C30_NoAttemptWithoutRetries ==
    NoRetries =>
        /\ Fetches = <<>>
        /\ Delays = 0
        /\ fwr.kind \in {"pending", "undefined"}
        /\ tl.kind \in {"pending", "resolved"}
        /\ pc \notin {"retryDelay", "tl_errorText", "tl_json", "tl_rawText", "comment"}
        /\ pc \in {"afterTrigger", "catch", "done"} /\ netLog # <<>> =>
              /\ fwr.kind = "undefined"
              /\ tl.kind = "resolved"
              /\ ~tl.success
              /\ ResultFields = {"success", "error", "originalError"}

C30_Witness ==
    /\ retriesIsNaN
    /\ pc = "done"
    /\ netLog = <<"jitter">>
    /\ fwr.kind = "undefined"
    /\ tl.kind = "resolved"
    /\ ~tl.success
    /\ tl.originalError = "Cannot read properties of undefined (reading 'status')"

\* A delivery of the 'review_pr' action whose signature verified.
ReviewDelivery ==
    /\ payload.event = "check_run.requested_action"
    /\ payload.valid
    /\ payload.action = "review_pr"

\* C31: handleReviewRequest never rejects, whichever of credential
\* acquisition, status updates, PR lookup, context fetch, workflow call,
\* comment and error update fail, so a 'review_pr' delivery with a valid
\* signature is never answered with anything but 200.
C31_ReviewAnswered200 ==
    ReviewDelivery => pc # "rejected" /\ res \in {0, 200}

\* A review delivery answered 200 after its in_progress update and its error
\* update were both rejected.
C31_Witness ==
    /\ ReviewDelivery
    /\ res = 200
    /\ Len(ghLog) >= 2
    /\ ghLog[1].status = "in_progress" /\ ~ghLog[1].ok
    /\ ghLog[Len(ghLog)].status = "completed" /\ ~ghLog[Len(ghLog)].ok
    /\ ghLog[Len(ghLog)].action = "review_pr"

\* The sleeps and fetch calls one workflow call can make: the jitter sleep,
\* one fetch per attempt and one delay between two attempts.
LoopBound == IF retriesIsNaN \/ retries <= 0 THEN 1 ELSE 2 * retries

\* The calls to GitHub the longer handler makes (handleReviewRequest without
\* a PR in the payload), each once.
HandlerCalls ==
    {"in_progress", "pulls.list", "pulls.get", "pulls.listFiles", "completed",
     "issues.createComment"}

\* C32: every invocation of handleReviewRequest and of handleMergeCheck
\* reaches its end when every step it waits for is eventually taken, and the
\* steps it takes are bounded: the retry loop is the only loop and makes at
\* most `retries` passes.
C32_Terminates ==
    /\ <>Ended
    /\ [](Len(netLog) <= LoopBound /\ Len(ghLog) <= Cardinality(HandlerCalls))

\* An invocation that ended after using every attempt and every delay of the
\* largest retry budget.
C32_Witness ==
    /\ Ended
    /\ payload.action # "other"
    /\ retries = MaxRetries
    /\ Len(netLog) = LoopBound

\* Every invocation has returned.
AllEnded == \A i \in Ids : Invocation(i).pc = "done"

\* GitHub accepted every check-run update the invocations made.
EveryUpdateAccepted ==
    \A i \in Ids :
        LET L == Invocation(i) IN
        \A k \in 1..Len(L.ghLog) : L.ghLog[k].op = "checks.update" => L.ghLog[k].ok

\* The check run holds what the 'completed' update of some invocation wrote.
ShowsCompletionOf(i) ==
    LET L == Invocation(i) IN
    \E k \in UpdatesOf(L, "completed") : checkRun = Shown(L.ghLog[k])

\* C33: two review invocations on one check run, every update accepted: once
\* both have ended the check run is 'completed', never 'in_progress'. It holds
\* the completion written by one of the two, or is untouched when neither got
\* its credentials.
C33_EndsCompleted ==
    (AllEnded /\ EveryUpdateAccepted) =>
        /\ checkRun.status = "completed"
        /\ \/ \E i \in Ids : ShowsCompletionOf(i)
           \/ /\ \A i \in Ids : Invocation(i).ghLog = <<>>
              /\ checkRun = CreatedCheck

\* Both have ended with every update accepted, invocation 1 with a successful
\* review and invocation 2 with a failed one, and the check run holds the
\* failed one's result.
C33_Witness ==
    /\ AllEnded
    /\ EveryUpdateAccepted
    /\ \E k \in UpdatesOf(Invocation(1), "completed") :
          Invocation(1).ghLog[k].action = "check_merge"
    /\ \E k \in UpdatesOf(Invocation(2), "completed") :
          Invocation(2).ghLog[k].action = "review_pr"
    /\ checkRun.action = "review_pr"

\* The titles of the error update of a review (lines 616, 623).
FailureTitles == {"AI Review Failed", "AI Review Unavailable"}

\* A write of the current delivery that completes a review.
ReviewCompletion(c) ==
    InReview /\ c.op = "checks.update" /\ c.status = "completed"

\* C34: the buttons follow a fixed protocol. A created check offers
\* 'review_pr' only; 'check_merge' is offered only by the completion update
\* of a review whose workflow call succeeded; a review's completion after
\* anything else offers 'review_pr'; no write offers any other button; and a
\* requested action with another identifier starts no handler.
C34_ButtonProtocol ==
    /\ \A k \in 1..Len(ghLog) :
          LET c == ghLog[k] IN
          /\ c.action \in {"", "review_pr", "check_merge"}
          /\ c.op = "checks.create" => c.action = "review_pr"
          /\ c.action = "check_merge" =>
                /\ ReviewCompletion(c)
                /\ tl.kind = "resolved" /\ tl.success
          /\ (ReviewCompletion(c) /\ ~(tl.kind = "resolved" /\ tl.success)) =>
                c.action = "review_pr"
    /\ checkRun.action = "check_merge" => checkRun = ReviewedCheck
    /\ checkRun.action = "review_pr" =>
          \/ checkRun = CreatedCheck
          \/ checkRun.status = "completed" /\ checkRun.title \in FailureTitles
    /\ (payload.event = "check_run.requested_action"
            /\ payload.action \notin {"review_pr", "check_merge"}) =>
          /\ ghLog = <<>>
          /\ netLog = <<>>
          /\ ~octokit
          /\ tl = Pending
          /\ pc \in {"dispatch", "done", "idle", "rejected"}

\* The third delivery asks for the merge check on a check run that offers it:
\* the check was created and a review was completed with success before.
C34_Witness ==
    /\ deliveries = 3
    /\ payload.valid
    /\ InMerge
    /\ pc = "mergeGetOctokit"
    /\ checkRun = ReviewedCheck

====
